---- MODULE Spec2Model ----
(***************************************************************************)
(* Model of SecretsLoaderService (nestjs-secrets): ordered loading and     *)
(* deep merge of configuration files, provider selection, and the          *)
(* recursive per-leaf resolution of secret references.                     *)
(***************************************************************************)
EXTENDS Integers, Sequences, FiniteSets, TLC

VARIABLES options, pc, provider, fileIdx, mergedConfig, parsers,
          stack, pending, log, before, outcome,
          process, baseDirectory, suspended

vars == <<options, pc, provider, fileIdx, mergedConfig, parsers,
          stack, pending, log, before, outcome,
          process, baseDirectory, suspended>>

(***************************************************************************)
(* Bounds                                                                  *)
(***************************************************************************)
MaxFiles == 2

(***************************************************************************)
(* Configuration values.  A value is a tagged record: scalars (string,     *)
(* number, boolean, null), arrays, and maps.  A map keeps its entries in   *)
(* insertion order (the order `for key in config` enumerates them).  An    *)
(* array carries its elements in v and, as any JavaScript array may, named *)
(* properties in p.                                                        *)
(***************************************************************************)
Str(s) == [t |-> "str", v |-> s]
Num(n) == [t |-> "num", v |-> n]
Bool(b) == [t |-> "bool", v |-> b]
Null == [t |-> "null", v |-> 0]
Undefined == [t |-> "undef", v |-> 0]
KV(k, val) == [k |-> k, v |-> val]
Map(entries) == [t |-> "map", v |-> entries]
Arr(elems) == [t |-> "arr", v |-> elems, p |-> <<>>]
EmptyMap == Map(<<>>)

isString(x) == x.t = "str"
isArray(x) == x.t = "arr"
isPlainObject(x) == x.t = "map"
isObject(x) == x.t \in {"map", "arr"}

\* The named entries of an object: a map's entries, an array's properties.
Props(obj) == IF isArray(obj) THEN obj.p ELSE obj.v
HasKey(obj, k) == \E i \in DOMAIN Props(obj) : Props(obj)[i].k = k
KeyIndex(obj, k) == CHOOSE i \in DOMAIN Props(obj) : Props(obj)[i].k = k
GetKey(obj, k) == IF HasKey(obj, k) THEN Props(obj)[KeyIndex(obj, k)].v ELSE Undefined
SetEntries(entries, k, val) ==
    IF \E i \in DOMAIN entries : entries[i].k = k
    THEN [i \in DOMAIN entries |-> IF entries[i].k = k THEN KV(k, val) ELSE entries[i]]
    ELSE Append(entries, KV(k, val))
SetKey(obj, k, val) ==
    IF isArray(obj) THEN [obj EXCEPT !.p = SetEntries(obj.p, k, val)]
    ELSE [obj EXCEPT !.v = SetEntries(obj.v, k, val)]
GetIndex(arr, i) == IF i \in DOMAIN arr.v THEN arr.v[i] ELSE Undefined
SetIndex(arr, i, val) ==
    IF i \in DOMAIN arr.v THEN [arr EXCEPT !.v[i] = val]
    ELSE [arr EXCEPT !.v = Append(arr.v, val)]
Keys(obj) == {Props(obj)[i].k : i \in DOMAIN Props(obj)}

(***************************************************************************)
(* lodash merge(object, ...sources)                                        *)
(***************************************************************************)
\* Faulty variant: a value already present is kept (defaults-style merge).
assignMergeValue_keepEarlier(objValue, srcValue) ==
    IF objValue = Undefined THEN srcValue ELSE objValue

\* assignMergeValue for a source value that is not an object: the source
\* value is assigned over whatever the destination held.
assignMergeValue(objValue, srcValue) == srcValue

\* baseMergeDeep's choice of the object the source is merged into.
mergeTarget(objValue, srcValue) ==
    IF isArray(srcValue)
    THEN IF isArray(objValue) THEN objValue ELSE Arr(<<>>)
    ELSE IF isObject(objValue) THEN objValue ELSE EmptyMap

RECURSIVE baseMerge(_, _)
RECURSIVE baseMergeDeep(_, _)
RECURSIVE mergeElems(_, _, _)
RECURSIVE mergeProps(_, _, _)

\* The value a key holds once srcValue has been merged over objValue.
mergeValue(objValue, srcValue) ==
    IF isObject(srcValue)
    THEN baseMergeDeep(objValue, srcValue)
    ELSE assignMergeValue(objValue, srcValue)

baseMergeDeep(objValue, srcValue) ==
    baseMerge(mergeTarget(objValue, srcValue), srcValue)

mergeElems(object, elems, i) ==
    IF i > Len(elems) THEN object
    ELSE mergeElems(SetIndex(object, i, mergeValue(GetIndex(object, i), elems[i])),
                    elems, i + 1)

mergeProps(object, entries, i) ==
    IF i > Len(entries) THEN object
    ELSE mergeProps(SetKey(object, entries[i].k,
                           mergeValue(GetKey(object, entries[i].k), entries[i].v)),
                    entries, i + 1)

\* baseMerge walks keysIn(source): the indices of an array, then the names.
baseMerge(object, source) ==
    IF isArray(source)
    THEN mergeProps(mergeElems(object, source.v, 1), source.p, 1)
    ELSE mergeProps(object, source.v, 1)

\* merge({}, mergedConfig, fileConfig)
merge(config, fileConfig) == baseMerge(baseMerge(EmptyMap, config), fileConfig)

(***************************************************************************)
(* Strings.  TLC treats a string as atomic, so Chars spells every string   *)
(* the model inspects character by character; the string predicates and    *)
(* the providers' regular expressions work on the spelled form.            *)
(***************************************************************************)
Chars(s) ==
    CASE s = "base.yaml" ->
           <<"b", "a", "s", "e", ".", "y", "a", "m", "l">>
      [] s = "env.yaml" ->
           <<"e", "n", "v", ".", "y", "a", "m", "l">>
      [] s = "lists.yml" ->
           <<"l", "i", "s", "t", "s", ".", "y", "m", "l">>
      [] s = "short.json" ->
           <<"s", "h", "o", "r", "t", ".", "j", "s", "o", "n">>
      [] s = "dup.json" ->
           <<"d", "u", "p", ".", "j", "s", "o", "n">>
      [] s = "missing.yaml" ->
           <<"m", "i", "s", "s", "i", "n", "g", ".", "y", "a", "m", "l">>
      [] s = "broken.yaml" ->
           <<"b", "r", "o", "k", "e", "n", ".", "y", "a", "m", "l">>
      [] s = "settings.conf" ->
           <<"s", "e", "t", "t", "i", "n", "g", "s", ".", "c", "o", "n", "f">>
      [] s = "secrets.yaml" ->
           <<"s", "e", "c", "r", "e", "t", "s", ".", "y", "a", "m", "l">>
      [] s = "twins.yaml" ->
           <<"t", "w", "i", "n", "s", ".", "y", "a", "m", "l">>
      [] s = "node_modules" ->
           <<"n", "o", "d", "e", "_", "m", "o", "d", "u", "l", "e", "s">>
      [] s = "dist" -> <<"d", "i", "s", "t">>
      [] s = "src" -> <<"s", "r", "c">>
      [] s = "lib" -> <<"l", "i", "b">>
      [] s = "config" -> <<"c", "o", "n", "f", "i", "g">>
      [] s = ".config" -> <<".", "c", "o", "n", "f", "i", "g">>
      [] s = "./config" -> <<".", "/", "c", "o", "n", "f", "i", "g">>
      [] s = "../shared" -> <<".", ".", "/", "s", "h", "a", "r", "e", "d">>
      [] s = ".." -> <<".", ".">>
      [] s = "" -> <<>>
      [] s = "/etc/app/" -> <<"/", "e", "t", "c", "/", "a", "p", "p", "/">>
      [] s = "/etc//app" -> <<"/", "e", "t", "c", "/", "/", "a", "p", "p">>
      [] s = "/srv" -> <<"/", "s", "r", "v">>
      [] s = "/srv/app" -> <<"/", "s", "r", "v", "/", "a", "p", "p">>
      [] s = "/srv/app/" -> <<"/", "s", "r", "v", "/", "a", "p", "p", "/">>
      [] s = "/srv/app/dist" ->
           <<"/", "s", "r", "v", "/", "a", "p", "p", "/", "d", "i", "s", "t">>
      [] s = "/srv/app/src" ->
           <<"/", "s", "r", "v", "/", "a", "p", "p", "/", "s", "r", "c">>
      [] s = "/srv/app/dist/services" ->
           <<"/", "s", "r", "v", "/", "a", "p", "p", "/", "d", "i", "s", "t",
             "/", "s", "e", "r", "v", "i", "c", "e", "s">>
      [] s = "/srv/app/node_modules/pkg/dist" ->
           <<"/", "s", "r", "v", "/", "a", "p", "p", "/",
             "n", "o", "d", "e", "_", "m", "o", "d", "u", "l", "e", "s",
             "/", "p", "k", "g", "/", "d", "i", "s", "t">>
      [] s = "/srv/app/node_modules/pkg/dist/services" ->
           <<"/", "s", "r", "v", "/", "a", "p", "p", "/",
             "n", "o", "d", "e", "_", "m", "o", "d", "u", "l", "e", "s",
             "/", "p", "k", "g", "/", "d", "i", "s", "t",
             "/", "s", "e", "r", "v", "i", "c", "e", "s">>
      [] s = "/home/dev" -> <<"/", "h", "o", "m", "e", "/", "d", "e", "v">>
      [] s = ".yml" ->
           <<".", "y", "m", "l">>
      [] s = ".yaml" ->
           <<".", "y", "a", "m", "l">>
      [] s = "localhost" ->
           <<"l", "o", "c", "a", "l", "h", "o", "s", "t">>
      [] s = "/app/db" ->
           <<"/", "a", "p", "p", "/", "d", "b">>
      [] s = "/app/dev/*" ->
           <<"/", "a", "p", "p", "/", "d", "e", "v", "/", "*">>
      [] s = "arn:aws:ssm:us-east-1:123456789012:parameter/app/db" ->
           <<"a", "r", "n", ":", "a", "w", "s", ":", "s", "s", "m", ":", "u", "s", "-", "e", "a", "s", "t", "-", "1", ":", "1", "2", "3", "4", "5", "6", "7", "8", "9", "0", "1", "2", ":", "p", "a", "r", "a", "m", "e", "t", "e", "r", "/", "a", "p", "p", "/", "d", "b">>
      [] s = "arn:aws:secretsmanager:us-east-1:123456789012:secret:db" ->
           <<"a", "r", "n", ":", "a", "w", "s", ":", "s", "e", "c", "r", "e", "t", "s", "m", "a", "n", "a", "g", "e", "r", ":", "u", "s", "-", "e", "a", "s", "t", "-", "1", ":", "1", "2", "3", "4", "5", "6", "7", "8", "9", "0", "1", "2", ":", "s", "e", "c", "r", "e", "t", ":", "d", "b">>
      [] s = "https://kv.vault.azure.net/secrets/db" ->
           <<"h", "t", "t", "p", "s", ":", "/", "/", "k", "v", ".", "v", "a", "u", "l", "t", ".", "a", "z", "u", "r", "e", ".", "n", "e", "t", "/", "s", "e", "c", "r", "e", "t", "s", "/", "d", "b">>
      [] s = "https://kv.vault.azure.net/secrets/db/v1" ->
           <<"h", "t", "t", "p", "s", ":", "/", "/", "k", "v", ".", "v", "a", "u", "l", "t", ".", "a", "z", "u", "r", "e", ".", "n", "e", "t", "/", "s", "e", "c", "r", "e", "t", "s", "/", "d", "b", "/", "v", "1">>
      [] s = "https://other.vault.azure.net/secrets/db" ->
           <<"h", "t", "t", "p", "s", ":", "/", "/", "o", "t", "h", "e", "r", ".", "v", "a", "u", "l", "t", ".", "a", "z", "u", "r", "e", ".", "n", "e", "t", "/", "s", "e", "c", "r", "e", "t", "s", "/", "d", "b">>
      [] s = "projects/p1/secrets/db/versions/1" ->
           <<"p", "r", "o", "j", "e", "c", "t", "s", "/", "p", "1", "/", "s", "e", "c", "r", "e", "t", "s", "/", "d", "b", "/", "v", "e", "r", "s", "i", "o", "n", "s", "/", "1">>
      [] s = "arn" ->
           <<"a", "r", "n">>
      [] s = "ssm" ->
           <<"s", "s", "m">>
      [] s = "aws" ->
           <<"a", "w", "s">>
      [] s = "secretsmanager" ->
           <<"s", "e", "c", "r", "e", "t", "s", "m", "a", "n", "a", "g", "e", "r">>
      [] s = "secret" ->
           <<"s", "e", "c", "r", "e", "t">>
      [] s = "parameter/" ->
           <<"p", "a", "r", "a", "m", "e", "t", "e", "r", "/">>
      [] s = "https://" ->
           <<"h", "t", "t", "p", "s", ":", "/", "/">>
      [] s = ".vault.azure.net/secrets/" ->
           <<".", "v", "a", "u", "l", "t", ".", "a", "z", "u", "r", "e", ".", "n", "e", "t", "/", "s", "e", "c", "r", "e", "t", "s", "/">>
      [] s = "projects" ->
           <<"p", "r", "o", "j", "e", "c", "t", "s">>
      [] s = "secrets" ->
           <<"s", "e", "c", "r", "e", "t", "s">>
      [] s = "versions" ->
           <<"v", "e", "r", "s", "i", "o", "n", "s">>

LowerChars == {"a", "b", "c", "d", "e", "f", "g", "h", "i", "j", "k", "l", "m",
               "n", "o", "p", "q", "r", "s", "t", "u", "v", "w", "x", "y", "z"}
UpperChars == {"A", "B", "C", "D", "E", "F", "G", "H", "I", "J", "K", "L", "M",
               "N", "O", "P", "Q", "R", "S", "T", "U", "V", "W", "X", "Y", "Z"}
DigitChars == {"0", "1", "2", "3", "4", "5", "6", "7", "8", "9"}
SpaceChars == {" ", "\t", "\n", "\r"}
\* \w
WordChars == LowerChars \cup UpperChars \cup DigitChars \cup {"_"}
\* [a-zA-Z0-9_./-]
PathChars == WordChars \cup {".", "/", "-"}

AllIn(cs, set) == \A i \in DOMAIN cs : cs[i] \in set
NoneIn(cs, set) == \A i \in DOMAIN cs : cs[i] \notin set
\* X+ for a character class X
Plus(cs, set) == Len(cs) >= 1 /\ AllIn(cs, set)
startsWith(cs, prefix) ==
    Len(cs) >= Len(prefix) /\ SubSeq(cs, 1, Len(prefix)) = prefix
endsWith(cs, suffix) ==
    Len(cs) >= Len(suffix) /\ SubSeq(cs, Len(cs) - Len(suffix) + 1, Len(cs)) = suffix
DropPrefix(cs, n) == SubSeq(cs, n + 1, Len(cs))

RECURSIVE Split(_, _)
\* The pieces of cs between the occurrences of the character ch.
Split(cs, ch) ==
    IF \A i \in DOMAIN cs : cs[i] # ch THEN <<cs>>
    ELSE LET j == CHOOSE i \in DOMAIN cs : cs[i] = ch /\ \A h \in 1..(i - 1) : cs[h] # ch
         IN <<SubSeq(cs, 1, j - 1)>> \o Split(DropPrefix(cs, j), ch)

(***************************************************************************)
(* The built-in providers' reference syntaxes (isSecretReference).         *)
(***************************************************************************)
\* The number of digits an account id has in a Parameter Store ARN: \d{12}
AccountIdDigits == 12

\* /^(?:\/[a-zA-Z0-9_./-]+|arn:[a-z-]+:ssm:[a-z0-9-]+:\d{12}:parameter\/[a-zA-Z0-9_./-]+)$/
parameterPathPattern(cs) ==
    \/ /\ Len(cs) >= 1
       /\ cs[1] = "/"
       /\ Plus(DropPrefix(cs, 1), PathChars)
    \/ LET parts == Split(cs, ":") IN
       /\ Len(parts) = 6
       /\ parts[1] = Chars("arn")
       /\ Plus(parts[2], LowerChars \cup {"-"})
       /\ parts[3] = Chars("ssm")
       /\ Plus(parts[4], LowerChars \cup DigitChars \cup {"-"})
       /\ Len(parts[5]) = AccountIdDigits /\ AllIn(parts[5], DigitChars)
       /\ startsWith(parts[6], Chars("parameter/"))
       /\ Plus(DropPrefix(parts[6], Len(Chars("parameter/"))), PathChars)

\* Faulty variant: the service field of the ARN is not fixed, /^arn:aws:[a-z]+:.../
\* with any resource after the account.
arnPattern_anyService(cs) ==
    LET parts == Split(cs, ":") IN
    /\ Len(parts) >= 6
    /\ parts[1] = Chars("arn")
    /\ parts[2] = Chars("aws")
    /\ Plus(parts[3], LowerChars)
    /\ Plus(parts[4], LowerChars \cup DigitChars \cup {"-"})
    /\ Plus(parts[5], DigitChars)
    /\ Len(parts[6]) >= 1
    /\ NoneIn(cs, {"\n", "\r"})

\* /^arn:aws:secretsmanager:[a-z0-9-]+:[0-9]+:secret:.+$/
arnPattern(cs) ==
    LET parts == Split(cs, ":") IN
    /\ Len(parts) >= 7
    /\ parts[1] = Chars("arn")
    /\ parts[2] = Chars("aws")
    /\ parts[3] = Chars("secretsmanager")
    /\ Plus(parts[4], LowerChars \cup DigitChars \cup {"-"})
    /\ Plus(parts[5], DigitChars)
    /\ parts[6] = Chars("secret")
    /\ (Len(parts) > 7 \/ Len(parts[7]) >= 1)
    /\ NoneIn(cs, {"\n", "\r"})

\* /^https:\/\/[\w-]+\.vault\.azure\.net\/secrets\/([^/\s]+)(?:\/([^/\s]+))?$/
\* The capture groups: <<matched, secret name, version>>, or <<>> for no match.
secretUrlMatch(cs) ==
    IF ~startsWith(cs, Chars("https://")) THEN <<>>
    ELSE LET rest == DropPrefix(cs, Len(Chars("https://")))
             dots == Split(rest, ".")
             host == dots[1]
             tail == DropPrefix(rest, Len(host))
         IN IF ~(Plus(host, WordChars \cup {"-"})
                 /\ startsWith(tail, Chars(".vault.azure.net/secrets/")))
            THEN <<>>
            ELSE LET segs == Split(DropPrefix(tail, Len(Chars(".vault.azure.net/secrets/"))), "/")
                     good(seg) == Len(seg) >= 1 /\ NoneIn(seg, SpaceChars)
                 IN IF Len(segs) = 1 /\ good(segs[1])
                    THEN <<cs, segs[1], <<>> >>
                    ELSE IF Len(segs) = 2 /\ good(segs[1]) /\ good(segs[2])
                         THEN <<cs, segs[1], segs[2]>>
                         ELSE <<>>

secretUrlPattern(cs) == secretUrlMatch(cs) # <<>>

\* /^projects\/[^/]+\/secrets\/[^/]+\/versions\/[^/]+$/
secretPathPattern(cs) ==
    LET parts == Split(cs, "/") IN
    /\ Len(parts) = 6
    /\ parts[1] = Chars("projects")
    /\ Len(parts[2]) >= 1
    /\ parts[3] = Chars("secrets")
    /\ Len(parts[4]) >= 1
    /\ parts[5] = Chars("versions")
    /\ Len(parts[6]) >= 1

(***************************************************************************)
(* The file system and the two parsers.  A file's text is described by the *)
(* grammar it satisfies and the tree it denotes: "yaml" is YAML that is    *)
(* not JSON, "json" is JSON (which js-yaml reads as well), "dupjson" is    *)
(* JSON with a repeated key (JSON.parse keeps the last, js-yaml rejects    *)
(* it), "garbage" is accepted by neither parser.                           *)
(***************************************************************************)
Text(syntax, tree) == [syntax |-> syntax, tree |-> tree]
NoFile == [exists |-> FALSE, text |-> Text("garbage", EmptyMap)]
File(text) == [exists |-> TRUE, text |-> text]

RefSsmPath == "/app/db"
RefSecretsManagerArn == "arn:aws:secretsmanager:us-east-1:123456789012:secret:db"
RefAzureUrl == "https://kv.vault.azure.net/secrets/db/v1"
RefGooglePath == "projects/p1/secrets/db/versions/1"

SecretsTree ==
    Map(<< KV("db", Map(<< KV("password", Str(RefSsmPath)),
                           KV("host", Str("localhost")),
                           KV("opts", Map(<< KV("token", Str(RefGooglePath)) >>)) >>)),
           KV("api", Str(RefSecretsManagerArn)),
           KV("vault", Str(RefAzureUrl)),
           KV("port", Num(5432)),
           KV("debug", Bool(TRUE)),
           KV("none", Null),
           KV("refs", Arr(<< Str(RefSsmPath), Map(<< KV("k", Str(RefSsmPath)) >>) >>)) >>)

FileSystem(name) ==
    CASE name = "base.yaml" ->
           File(Text("yaml", Map(<< KV("a", Map(<< KV("x", Num(1)), KV("y", Num(2)) >>)),
                                    KV("s", Str("localhost")) >>)))
      [] name = "env.yaml" ->
           File(Text("yaml", Map(<< KV("a", Map(<< KV("y", Num(3)), KV("z", Num(4)) >>)) >>)))
      [] name = "lists.yml" ->
           File(Text("yaml", Map(<< KV("list", Arr(<< Num(1), Num(2), Num(3) >>)) >>)))
      [] name = "short.json" ->
           File(Text("json", Map(<< KV("list", Arr(<< Num(9) >>)),
                                    KV("s", Null) >>)))
      [] name = "dup.json" ->
           File(Text("dupjson", Map(<< KV("a", Num(5)) >>)))
      [] name = "settings.conf" ->
           File(Text("yaml", Map(<< KV("a", Map(<< KV("x", Num(7)) >>)),
                                    KV("db", Map(<< KV("host", Str("localhost")) >>)) >>)))
      [] name = "secrets.yaml" -> File(Text("yaml", SecretsTree))
      [] name = "broken.yaml" -> File(Text("garbage", EmptyMap))
      [] name = "twins.yaml" ->
           File(Text("yaml", Map(<< KV("primary", Str(RefSsmPath)),
                                    KV("replica", Str(RefSsmPath)),
                                    KV("all", Str("/app/dev/*")) >>)))
      [] OTHER -> NoFile

AllFiles == {"base.yaml", "env.yaml", "lists.yml", "short.json", "dup.json",
             "settings.conf", "secrets.yaml", "broken.yaml", "missing.yaml"}
SecretFiles == {"secrets.yaml", "settings.conf", "broken.yaml"}
CustomFiles == {"secrets.yaml", "broken.yaml"}

Parsed(tree) == [ok |-> TRUE, value |-> tree]
ParseError == [ok |-> FALSE, value |-> Undefined]

\* existsSync(filePath)
existsSync(name) == FileSystem(name).exists
\* yaml.load(readFileSync(filePath, 'utf8'))
yamlLoad(name) ==
    LET text == FileSystem(name).text
    IN IF text.syntax \in {"yaml", "json"} THEN Parsed(text.tree) ELSE ParseError
\* JSON.parse(readFileSync(filePath, 'utf8'))
JSONparse(name) ==
    LET text == FileSystem(name).text
    IN IF text.syntax \in {"json", "dupjson"} THEN Parsed(text.tree) ELSE ParseError

\* The parser the condition of loadConfigFiles selects for a file.  fileType
\* is the destructured option, 'yaml' when the option is absent.
selectParser(fileType, filename) ==
    IF \/ fileType = "yaml"
       \/ endsWith(Chars(filename), Chars(".yml"))
       \/ endsWith(Chars(filename), Chars(".yaml"))
    THEN "yaml" ELSE "json"

\* const {files, fileType = 'yaml'} = options
fileTypeOf(opts) == IF opts.fileType = "undefined" THEN "yaml" ELSE opts.fileType

parseFile(parser, name) == IF parser = "yaml" THEN yamlLoad(name) ELSE JSONparse(name)

(***************************************************************************)
(* Providers.  A provider is its kind and the client it wraps; options     *)
(* hold "undefined" for an absent member.  A client is known by its        *)
(* constructor name.                                                       *)
(***************************************************************************)
CustomInstance == "customProviderInstance"
ProviderTags == {"AwsParameterStoreProvider", "AwsSecretsManagerProvider",
                 "AzureKeyVaultProvider", "GoogleSecretManagerProvider"}
ClientTypes == {"SSMClient", "SSM", "SecretsManager", "SecretsManagerClient",
                "SecretClient", "SecretManagerServiceClient", "Object"}

typeof(x) ==
    IF x = "undefined" THEN "undefined"
    ELSE IF x = CustomInstance THEN "object" ELSE "string"

Provider(kind, client) == [kind |-> kind, client |-> client]
NoProvider == Provider("undefined", "undefined")
CustomProvider == Provider("custom", "undefined")

\* Faulty variant: an unknown key falls back to a Parameter Store provider.
createSecretProvider_defaultProvider(key, client) ==
    CASE key \in {"AwsSecretsManagerProvider", "SecretsManager"} ->
           Provider("AwsSecretsManagerProvider", client)
      [] key \in {"AzureKeyVaultProvider", "SecretClient"} ->
           Provider("AzureKeyVaultProvider", client)
      [] key \in {"GoogleSecretManagerProvider", "SecretManagerServiceClient"} ->
           Provider("GoogleSecretManagerProvider", client)
      [] OTHER -> Provider("AwsParameterStoreProvider", client)

createSecretProvider(key, client) ==
    CASE key \in {"AwsSecretsManagerProvider", "SecretsManager"} ->
           Provider("AwsSecretsManagerProvider", client)
      [] key \in {"AwsParameterStoreProvider", "SSMClient"} ->
           Provider("AwsParameterStoreProvider", client)
      [] key \in {"AzureKeyVaultProvider", "SecretClient"} ->
           Provider("AzureKeyVaultProvider", client)
      [] key \in {"GoogleSecretManagerProvider", "SecretManagerServiceClient"} ->
           Provider("GoogleSecretManagerProvider", client)
      [] OTHER -> NoProvider

\* Faulty variant: a client, when there is one, decides before the instance.
loadProvider_clientBeforeInstance(opts) ==
    IF opts.client # "undefined"
    THEN createSecretProvider(IF typeof(opts.provider) = "string"
                              THEN opts.provider ELSE opts.client, opts.client)
    ELSE IF typeof(opts.provider) = "object" THEN CustomProvider ELSE NoProvider

\* Faulty variant: the client's constructor name is tried before the tag.
loadProvider_clientNameFirst(opts) ==
    IF typeof(opts.provider) = "object" THEN CustomProvider
    ELSE IF opts.client # "undefined"
         THEN LET detected == createSecretProvider(opts.client, opts.client)
              IN IF detected # NoProvider \/ typeof(opts.provider) # "string"
                 THEN detected
                 ELSE createSecretProvider(opts.provider, opts.client)
         ELSE NoProvider

loadProvider(opts) ==
    IF typeof(opts.provider) = "object" THEN CustomProvider
    ELSE IF typeof(opts.provider) = "string" /\ opts.client # "undefined"
         THEN createSecretProvider(opts.provider, opts.client)
         ELSE IF opts.client # "undefined"
              THEN createSecretProvider(opts.client, opts.client)
              ELSE NoProvider

\* The outcomes of provider.isSecretReference(value): "true", "false", or
\* "throw".  The built-in providers test their pattern; a custom provider
\* is arbitrary caller code.
isSecretReference(prov, value) ==
    CASE prov.kind = "AwsParameterStoreProvider" ->
           {IF parameterPathPattern(Chars(value)) THEN "true" ELSE "false"}
      [] prov.kind = "AwsSecretsManagerProvider" ->
           {IF arnPattern(Chars(value)) THEN "true" ELSE "false"}
      [] prov.kind = "AzureKeyVaultProvider" ->
           {IF secretUrlPattern(Chars(value)) THEN "true" ELSE "false"}
      [] prov.kind = "GoogleSecretManagerProvider" ->
           {IF secretPathPattern(Chars(value)) THEN "true" ELSE "false"}
      [] OTHER -> {"true", "false", "throw"}

(***************************************************************************)
(* Backends.  SecretOf is the value a backend stores under a reference;    *)
(* a response is what the wrapped client's call settles with.  An empty    *)
(* string stands for a member that is absent or empty (both are falsy).    *)
(***************************************************************************)
SecretOf(ref) ==
    CASE ref = RefSsmPath -> "ssm-db-value"
      [] ref = RefSecretsManagerArn -> "asm-db-value"
      [] ref = RefAzureUrl -> "kv-db-value"
      [] ref = RefGooglePath -> "gsm-db-value"
      [] OTHER -> "other-value"

\* A rejected backend call carries the backend's error; a result of
\* resolveSecret is a value, or the error it throws.
RejectedWith(error) == [kind |-> "rejected", error |-> error]
Rejected == RejectedWith("AccessDeniedException")
Resolved(val) == [ok |-> TRUE, val |-> val, err |-> "none"]
Throws(err) == [ok |-> FALSE, val |-> Undefined, err |-> err]
Failed == Throws("Error")

\* Whether the wrapped client has the method the provider calls.
hasMethod(client, method) ==
    CASE method = "send" ->
           client \in {"SSMClient", "SSM", "SecretsManager", "SecretsManagerClient", "Object"}
      [] method = "getSecretValue" -> client \in {"SecretsManager", "Object"}
      [] method = "getSecret" -> client \in {"SecretClient", "Object"}
      [] method = "accessSecretVersion" -> client \in {"SecretManagerServiceClient", "Object"}
      [] OTHER -> FALSE

\* Whether the client talks to the service the provider's call is meant for.
servesProvider(client, kind) ==
    CASE kind = "AwsParameterStoreProvider" -> client \in {"SSMClient", "SSM", "Object"}
      [] kind = "AwsSecretsManagerProvider" -> client \in {"SecretsManager", "Object"}
      [] kind = "AzureKeyVaultProvider" -> client \in {"SecretClient", "Object"}
      [] kind = "GoogleSecretManagerProvider" ->
           client \in {"SecretManagerServiceClient", "Object"}
      [] OTHER -> FALSE

\* Faulty variant: the value of the parameter is not tested.
retrieveSingleParameter_emptyAllowed(response) ==
    IF response.kind = "rejected" THEN Throws(response.error)
    ELSE IF ~response.hasParameter THEN Throws("Parameter not found")
    ELSE Resolved(Str(response.value))

\* AwsParameterStoreProvider.retrieveSingleParameter on a settled response
retrieveSingleParameter(response) ==
    IF response.kind = "rejected" THEN Throws(response.error)
    ELSE IF ~response.hasParameter THEN Throws("Parameter not found")
    ELSE IF response.value = "" THEN Throws("Parameter value is empty")
    ELSE Resolved(Str(response.value))

RECURSIVE filterBoolean(_)
\* .filter(Boolean) over the mapped parameter values
filterBoolean(values) ==
    IF values = <<>> THEN <<>>
    ELSE IF Head(values) = "" THEN filterBoolean(Tail(values))
         ELSE <<Str(Head(values))>> \o filterBoolean(Tail(values))

\* Faulty variant: the mapped values are returned without .filter(Boolean).
retrieveParametersByPath_unfiltered(response) ==
    IF response.kind = "rejected" THEN Throws(response.error)
    ELSE IF ~response.hasParameters \/ Len(response.values) = 0
         THEN Throws("No parameters found at path")
    ELSE Resolved(Arr([i \in DOMAIN response.values |-> Str(response.values[i])]))

\* AwsParameterStoreProvider.retrieveParametersByPath on a settled response
retrieveParametersByPath(response) ==
    IF response.kind = "rejected" THEN Throws(response.error)
    ELSE IF ~response.hasParameters \/ Len(response.values) = 0
         THEN Throws("No parameters found at path")
    ELSE Resolved(Arr(filterBoolean(response.values)))

\* AwsSecretsManagerProvider.decodeBinarySecret
decodeBinarySecret(binaryData) ==
    CASE binaryData = "YXNtLWRiLXZhbHVl" -> "asm-db-value"
      [] binaryData = "b3RoZXItdmFsdWU=" -> "other-value"
      [] OTHER -> "?"

encodeBase64(s) ==
    CASE s = "asm-db-value" -> "YXNtLWRiLXZhbHVl"
      [] OTHER -> "b3RoZXItdmFsdWU="

\* Faulty variant: SecretBinary is looked at before SecretString.
resolveSecretsManager_binaryFirst(response) ==
    IF response.kind = "rejected" THEN Throws(response.error)
    ELSE IF response.SecretBinary # "" THEN Resolved(Str(decodeBinarySecret(response.SecretBinary)))
    ELSE IF response.SecretString # "" THEN Resolved(Str(response.SecretString))
    ELSE Throws("Secret value is empty")

\* AwsSecretsManagerProvider.resolveSecret on a settled response
resolveSecretsManager(response) ==
    IF response.kind = "rejected" THEN Throws(response.error)
    ELSE IF response.SecretString # "" THEN Resolved(Str(response.SecretString))
    ELSE IF response.SecretBinary # "" THEN Resolved(Str(decodeBinarySecret(response.SecretBinary)))
    ELSE Throws("Secret value is empty")

\* AzureKeyVaultProvider.resolveSecret on a settled response
resolveKeyVault(response) ==
    IF response.kind = "rejected" THEN Throws(response.error)
    ELSE IF response.isNull \/ response.value = ""
         THEN Throws("Secret was retrieved but has an empty value")
    ELSE Resolved(Str(response.value))

\* Faulty variant: a backend error is caught and a new error thrown for it.
resolveGoogle_wrapsError(response) ==
    IF response.kind = "rejected" THEN Throws("Failed to access secret")
    ELSE IF ~response.hasPayload THEN Throws("Secret payload is missing")
    ELSE IF response.data = "" THEN Throws("Secret payload data is missing")
    ELSE Resolved(Str(response.data))

\* GoogleSecretManagerProvider.resolveSecret on a settled response
resolveGoogle(response) ==
    IF response.kind = "rejected" THEN Throws(response.error)
    ELSE IF ~response.hasPayload THEN Throws("Secret payload is missing")
    ELSE IF response.data = "" THEN Throws("Secret payload data is missing")
    ELSE Resolved(Str(response.data))

\* The responses the provider's one backend call can settle with.
BackendResponses(prov, ref) ==
    CASE prov.kind = "AwsParameterStoreProvider" ->
           IF ~(hasMethod(prov.client, "send") /\ servesProvider(prov.client, prov.kind))
           THEN {Rejected}
           ELSE IF endsWith(Chars(ref), <<"/", "*">>)
           THEN {Rejected, RejectedWith("ThrottlingException"),
                 [kind |-> "GetParametersByPath", hasParameters |-> FALSE, values |-> <<>>],
                 [kind |-> "GetParametersByPath", hasParameters |-> TRUE, values |-> <<>>],
                 [kind |-> "GetParametersByPath", hasParameters |-> TRUE,
                  values |-> <<"first-value", "second-value">>],
                 [kind |-> "GetParametersByPath", hasParameters |-> TRUE,
                  values |-> <<"db.example.com", "secret-password", "api-key-value">>],
                 [kind |-> "GetParametersByPath", hasParameters |-> TRUE,
                  values |-> <<"", "">>],
                 [kind |-> "GetParametersByPath", hasParameters |-> TRUE,
                  values |-> <<"first-value", "", "second-value">>]}
           ELSE {Rejected, RejectedWith("ThrottlingException"),
                 [kind |-> "GetParameter", hasParameter |-> FALSE, value |-> ""],
                 [kind |-> "GetParameter", hasParameter |-> TRUE, value |-> ""],
                 [kind |-> "GetParameter", hasParameter |-> TRUE, value |-> SecretOf(ref)]}
      [] prov.kind = "AwsSecretsManagerProvider" ->
           IF ~(hasMethod(prov.client, "getSecretValue") /\ servesProvider(prov.client, prov.kind))
           THEN {Rejected}
           ELSE {Rejected, RejectedWith("ThrottlingException"),
                 [kind |-> "GetSecretValue", SecretString |-> "", SecretBinary |-> ""],
                 [kind |-> "GetSecretValue", SecretString |-> SecretOf(ref), SecretBinary |-> ""],
                 [kind |-> "GetSecretValue", SecretString |-> "",
                  SecretBinary |-> encodeBase64(SecretOf(ref))],
                 [kind |-> "GetSecretValue", SecretString |-> SecretOf(ref),
                  SecretBinary |-> encodeBase64("other-value")]}
      [] prov.kind = "AzureKeyVaultProvider" ->
           IF ~(hasMethod(prov.client, "getSecret") /\ servesProvider(prov.client, prov.kind))
           THEN {Rejected}
           ELSE {Rejected, RejectedWith("ThrottlingException"),
                 [kind |-> "getSecret", isNull |-> TRUE, value |-> ""],
                 [kind |-> "getSecret", isNull |-> FALSE, value |-> ""],
                 [kind |-> "getSecret", isNull |-> FALSE, value |-> SecretOf(ref)]}
      [] prov.kind = "GoogleSecretManagerProvider" ->
           IF ~(hasMethod(prov.client, "accessSecretVersion")
                /\ servesProvider(prov.client, prov.kind))
           THEN {Rejected}
           ELSE {Rejected, RejectedWith("ThrottlingException"),
                 [kind |-> "accessSecretVersion", hasPayload |-> FALSE, data |-> ""],
                 [kind |-> "accessSecretVersion", hasPayload |-> TRUE, data |-> ""],
                 [kind |-> "accessSecretVersion", hasPayload |-> TRUE, data |-> SecretOf(ref)]}
      [] OTHER -> {Rejected}

\* AzureKeyVaultProvider.parseSecretReference: the secret name (match[1]),
\* or <<>> where it throws because the reference does not match.
parseSecretReference(cs) ==
    LET match == secretUrlMatch(cs)
    IN IF match = <<>> THEN <<>> ELSE match[2]

\* A call on the wrapped client: the method, the command sent (for send),
\* the name, path or id asked for, and the options that go with it.
Request(method, command, target, version, decrypt, recursive) ==
    [method |-> method, command |-> command, target |-> target, version |-> version,
     WithDecryption |-> decrypt, Recursive |-> recursive]
NoRequest == Request("none", "none", <<>>, <<>>, FALSE, FALSE)

\* new GetParametersByPathCommand({Path: pathRef.slice(0, -2), ...})
GetParametersByPathCommand(pathRef) ==
    Request("send", "GetParametersByPathCommand",
            SubSeq(pathRef, 1, Len(pathRef) - 2), <<>>, TRUE, TRUE)

\* new GetParameterCommand({Name: paramName, WithDecryption: true})
GetParameterCommand(paramName) ==
    Request("send", "GetParameterCommand", paramName, <<>>, TRUE, FALSE)

\* this.client.getSecretValue({SecretId: secretRef})
getSecretValue(secretRef) ==
    Request("getSecretValue", "none", secretRef, <<>>, FALSE, FALSE)

\* Faulty variant: the version segment of the reference is passed on.
getSecret_withVersion(secretRef) ==
    LET match == secretUrlMatch(secretRef)
    IN IF match = <<>> THEN NoRequest
       ELSE Request("getSecret", "none", match[2], match[3], FALSE, FALSE)

\* Faulty variant: match[0], the whole URL, is taken for the secret name.
getSecret_wholeUrl(secretRef) ==
    LET match == secretUrlMatch(secretRef)
    IN IF match = <<>> THEN NoRequest
       ELSE Request("getSecret", "none", match[1], <<>>, FALSE, FALSE)

\* this.client.getSecret(this.parseSecretReference(secretRef))
getSecret(secretRef) ==
    LET secretName == parseSecretReference(secretRef)
    IN IF secretName = <<>> THEN NoRequest
       ELSE Request("getSecret", "none", secretName, <<>>, FALSE, FALSE)

\* this.client.accessSecretVersion({name: secretRef})
accessSecretVersion(secretRef) ==
    Request("accessSecretVersion", "none", secretRef, <<>>, FALSE, FALSE)

\* The call resolveSecret(ref) makes on the wrapped client; NoRequest when
\* it throws before any call (no such method, or a reference that the Key
\* Vault provider cannot parse).
BackendRequest(prov, ref) ==
    LET request ==
          CASE prov.kind = "AwsParameterStoreProvider" ->
                 IF endsWith(Chars(ref), <<"/", "*">>)
                 THEN GetParametersByPathCommand(Chars(ref))
                 ELSE GetParameterCommand(Chars(ref))
            [] prov.kind = "AwsSecretsManagerProvider" -> getSecretValue(Chars(ref))
            [] prov.kind = "AzureKeyVaultProvider" -> getSecret(Chars(ref))
            [] prov.kind = "GoogleSecretManagerProvider" -> accessSecretVersion(Chars(ref))
            [] OTHER -> NoRequest
    IN IF hasMethod(prov.client, request.method) THEN request ELSE NoRequest

\* What a built-in provider's resolveSecret(ref) makes of a settled response.
resolveSecretWith(prov, ref, response) ==
    CASE prov.kind = "AwsParameterStoreProvider" ->
           IF endsWith(Chars(ref), <<"/", "*">>)
           THEN retrieveParametersByPath(response)
           ELSE retrieveSingleParameter(response)
      [] prov.kind = "AwsSecretsManagerProvider" -> resolveSecretsManager(response)
      [] prov.kind = "AzureKeyVaultProvider" -> resolveKeyVault(response)
      [] prov.kind = "GoogleSecretManagerProvider" -> resolveGoogle(response)
      [] OTHER -> Failed

\* The results provider.resolveSecret(ref) can settle with: a value
\* (Resolved) or a rejection (Failed).  A custom provider returns a string
\* or an array of strings, or rejects.
resolveSecret(prov, ref) ==
    IF prov.kind \in ProviderTags
    THEN {resolveSecretWith(prov, ref, r) : r \in BackendResponses(prov, ref)}
    ELSE {Failed, Resolved(Str(SecretOf(ref))),
          Resolved(Arr(<< Str(SecretOf(ref)), Str("second-value") >>))}

(***************************************************************************)
(* Paths into the configuration tree                                       *)
(***************************************************************************)
RECURSIVE GetPath(_, _)
\* The value a sequence of map keys leads to, Undefined when there is none.
GetPath(tree, path) ==
    IF path = <<>> THEN tree
    ELSE IF ~isPlainObject(tree) THEN Undefined
         ELSE GetPath(GetKey(tree, Head(path)), Tail(path))

\* Faulty variant: the value is assigned under the key in the root object.
SetPath_atRoot(tree, path, val) == SetKey(tree, path[Len(path)], val)

RECURSIVE SetPath(_, _, _)
\* config[key] = val, for the map the path's prefix leads to
SetPath(tree, path, val) ==
    IF Len(path) = 1 THEN SetKey(tree, Head(path), val)
    ELSE SetKey(tree, Head(path), SetPath(GetKey(tree, Head(path)), Tail(path), val))

\* The keys `for (const key in config)` enumerates, in order.
KeySeq(obj) == [j \in DOMAIN Props(obj) |-> Props(obj)[j].k]

(***************************************************************************)
(* The load options the model explores                                     *)
(***************************************************************************)
RECURSIVE SeqsUpTo(_, _)
SeqsUpTo(S, n) ==
    IF n = 0 THEN {<<>>}
    ELSE LET shorter == SeqsUpTo(S, n - 1)
         IN shorter \cup {Append(s, x) : s \in shorter, x \in S}

Options(files, fileType, prov, client) ==
    [files |-> files, fileType |-> fileType, provider |-> prov, client |-> client,
     root |-> "undefined"]

\* Every file list with every fileType, no provider and no client.
MergeOptions ==
    {Options(fs, ft, "undefined", "undefined") :
        fs \in SeqsUpTo(AllFiles, MaxFiles), ft \in {"undefined", "yaml", "json"}}

\* Every provider tag with every client, over file lists that hold references.
ProviderOptions ==
    {Options(fs, "undefined", pr, cl) :
        fs \in SeqsUpTo(SecretFiles, MaxFiles) \ {<<>>},
        pr \in ProviderTags \cup {"undefined"},
        cl \in ClientTypes \cup {"undefined"}}

\* A custom provider instance, alone and beside a client.
CustomOptions ==
    {Options(fs, "undefined", CustomInstance, "undefined") :
        fs \in SeqsUpTo(CustomFiles, MaxFiles) \ {<<>>}}
    \cup {Options(<<"secrets.yaml">>, "undefined", CustomInstance, "SSMClient")}

\* The values of options.root: absent, empty, absolute (one with a trailing
\* slash, one with a doubled slash), relative to the working directory, and
\* bare names.
Roots ==
    {"undefined", "", "/etc/app/", "/etc//app", "./config", "../shared",
     "config", ".config", ".."}

\* One file, no provider, every root.
RootOptions ==
    {[Options(<<"base.yaml">>, "undefined", "undefined", "undefined")
         EXCEPT !.root = root] : root \in Roots}

\* One file in which two keys hold the same reference and a third a
\* path-prefix reference, loaded with a Parameter Store client, tagged or
\* detected, and with a custom provider.
TwinOptions ==
    {Options(<<"twins.yaml">>, "undefined", pr, cl) :
        pr \in {"undefined", "AwsParameterStoreProvider"}, cl \in {"SSMClient"}}
    \cup {Options(<<"twins.yaml">>, "undefined", CustomInstance, "undefined")}

(***************************************************************************)
(* node:path (POSIX) and the base directory (part_008 lines 63-89 and      *)
(* 175-204).  Paths are character sequences.  process.dirname is the       *)
(* __dirname of the service's file, process.cwd the working directory.     *)
(***************************************************************************)
RECURSIVE JoinWith(_, _)
\* segs.join(ch)
JoinWith(segs, ch) ==
    IF segs = <<>> THEN <<>>
    ELSE IF Len(segs) = 1 THEN segs[1]
    ELSE segs[1] \o <<ch>> \o JoinWith(Tail(segs), ch)

RECURSIVE normalizeSegments(_, _, _)
\* normalizeString: '' and '.' segments dropped, 'x/..' cancelled, a leading
\* '..' kept in a relative path and dropped in an absolute one.
normalizeSegments(segs, done, absolute) ==
    IF segs = <<>> THEN done
    ELSE LET seg == Head(segs)
             rest == Tail(segs)
         IN IF seg = <<>> \/ seg = <<".">>
            THEN normalizeSegments(rest, done, absolute)
            ELSE IF seg = <<".", ".">>
            THEN IF done # <<>> /\ done[Len(done)] # <<".", ".">>
                 THEN normalizeSegments(rest, SubSeq(done, 1, Len(done) - 1), absolute)
                 ELSE IF absolute
                      THEN normalizeSegments(rest, done, absolute)
                      ELSE normalizeSegments(rest, Append(done, seg), absolute)
            ELSE normalizeSegments(rest, Append(done, seg), absolute)

isAbsolute(cs) == Len(cs) > 0 /\ cs[1] = "/"

\* path.normalize: a trailing slash is kept.
normalize(cs) ==
    IF cs = <<>> THEN <<".">>
    ELSE LET absolute == isAbsolute(cs)
             trailing == cs[Len(cs)] = "/"
             body == JoinWith(normalizeSegments(Split(cs, "/"), <<>>, absolute), "/")
         IN IF body = <<>>
            THEN IF absolute THEN <<"/">>
                 ELSE IF trailing THEN <<".", "/">> ELSE <<".">>
            ELSE (IF absolute THEN <<"/">> ELSE <<>>) \o body
                 \o (IF trailing THEN <<"/">> ELSE <<>>)

\* path.join(a, b)
join(a, b) ==
    IF a = <<>> /\ b = <<>> THEN <<".">>
    ELSE IF a = <<>> THEN normalize(b)
    ELSE IF b = <<>> THEN normalize(a)
    ELSE normalize(a \o <<"/">> \o b)

\* path.resolve(from, to): the rightmost absolute argument starts the
\* result, the working directory if there is none; no trailing slash.
resolve(from, to) ==
    LET whole == IF isAbsolute(to) THEN to
                 ELSE IF isAbsolute(from) THEN from \o <<"/">> \o to
                 ELSE Chars(process.cwd) \o <<"/">> \o from \o <<"/">> \o to
        body == JoinWith(normalizeSegments(Split(whole, "/"), <<>>, TRUE), "/")
    IN <<"/">> \o body

RECURSIVE basename(_)
\* path.basename: the last segment, trailing slashes aside.
basename(cs) ==
    IF cs # <<>> /\ cs[Len(cs)] = "/" THEN basename(SubSeq(cs, 1, Len(cs) - 1))
    ELSE LET segs == Split(cs, "/") IN segs[Len(segs)]

\* String.prototype.indexOf, counting from 0; -1 when absent.
indexOf(cs, needle) ==
    LET at == {i \in 1..(Len(cs) - Len(needle) + 1) :
                  SubSeq(cs, i, i + Len(needle) - 1) = needle}
    IN IF at = {} THEN -1
       ELSE (CHOOSE i \in at : \A j \in at : i <= j) - 1

\* String.prototype.substring(0, end)
substring(cs, end) == SubSeq(cs, 1, end)

specialDirs == {Chars("dist"), Chars("src"), Chars("lib")}

findAppRootDirectory ==
    LET dirname == Chars(process.dirname)
        currentDir == IF basename(dirname) \in specialDirs
                      THEN resolve(dirname, Chars(".."))
                      ELSE dirname
        nodeModulesIndex == indexOf(currentDir, Chars("node_modules"))
    IN IF nodeModulesIndex > -1
       THEN substring(currentDir, nodeModulesIndex)
       ELSE currentDir

isRelativePathFromCwd(cs) ==
    startsWith(cs, <<".", "/">>) \/ startsWith(cs, <<".", ".", "/">>)

resolveDefaultConfigDirectory(appRoot, configDir) == join(appRoot, configDir)

\* Faulty variant: a bare name is resolved against the working directory.
resolveBaseDirectory_bareNameFromCwd(directoryPath) ==
    LET appRoot == findAppRootDirectory
        path == Chars(directoryPath)
    IN IF directoryPath = "undefined" \/ path = <<>>
       THEN resolveDefaultConfigDirectory(appRoot, Chars("config"))
       ELSE IF isAbsolute(path) THEN path
       ELSE resolve(Chars(process.cwd), path)

\* resolveBaseDirectory(directoryPath?)
resolveBaseDirectory(directoryPath) ==
    LET appRoot == findAppRootDirectory
        path == Chars(directoryPath)
    IN IF directoryPath = "undefined" \/ path = <<>>
       THEN resolveDefaultConfigDirectory(appRoot, Chars("config"))
       ELSE IF isAbsolute(path) THEN path
       ELSE IF isRelativePathFromCwd(path) THEN resolve(Chars(process.cwd), path)
       ELSE join(appRoot, path)

\* The values of __dirname and of process.cwd().
Dirnames ==
    {"/srv/app/dist", "/srv/app/src", "/srv/app", "/srv/app/dist/services",
     "/srv/app/node_modules/pkg/dist", "/srv/app/node_modules/pkg/dist/services"}
WorkingDirectories == {"/srv/app", "/home/dev"}
Process(dirname, cwd) == [dirname |-> dirname, cwd |-> cwd]
\* The process of the scenarios that do not vary it.
DefaultProcess == Process("/srv/app/node_modules/pkg/dist/services", "/srv/app")

\* No base directory resolved yet; no second load.
Unset == <<"unset">>
NoLoad == [pc |-> "none"]

(***************************************************************************)
(* The state machine of load(options)                                      *)
(***************************************************************************)
NoCall == [path |-> <<>>, ref |-> ""]
Frame(path, keys) == [path |-> path, keys |-> keys, i |-> 1]
ParserUse(file, parser, loaded) == [file |-> file, parser |-> parser, loaded |-> loaded]
IsRefCall(path, arg, res) ==
    [op |-> "isSecretReference", path |-> path, arg |-> arg, res |-> res, val |-> Undefined]
ResolveCall(path, arg, result) ==
    [op |-> "resolveSecret", path |-> path, arg |-> arg,
     res |-> IF result.ok THEN "resolved" ELSE "rejected", val |-> result.val]

Init ==
    /\ \/ /\ options \in MergeOptions \cup ProviderOptions \cup CustomOptions \cup TwinOptions
          /\ process = DefaultProcess
       \/ /\ options \in RootOptions
          /\ process \in {Process(d, w) : d \in Dirnames, w \in WorkingDirectories}
    /\ baseDirectory = Unset
    /\ suspended = NoLoad
    /\ pc = "load"
    /\ provider = NoProvider
    /\ fileIdx = 0
    /\ mergedConfig = EmptyMap
    /\ parsers = <<>>
    /\ stack = <<>>
    /\ pending = NoCall
    /\ log = <<>>
    /\ before = EmptyMap
    /\ outcome = "running"

\* load: const provider = await this.loadProvider(options)
LoadProvider ==
    /\ pc = "load"
    /\ provider' = loadProvider(options)
    /\ pc' = "loadConfigFiles"
    /\ UNCHANGED <<process, baseDirectory, suspended, options, fileIdx, mergedConfig, parsers, stack, pending, log,
                   before, outcome>>

\* loadConfigFiles up to the loop: an empty file list returns {} at once.
BeginLoadConfigFiles ==
    /\ pc = "loadConfigFiles"
    /\ IF Len(options.files) = 0
       THEN /\ pc' = "done"
            /\ outcome' = "returned"
            /\ fileIdx' = fileIdx
       ELSE /\ pc' = "files"
            /\ outcome' = outcome
            /\ fileIdx' = 1
    /\ mergedConfig' = EmptyMap
    /\ baseDirectory' = resolveBaseDirectory(options.root)
    /\ UNCHANGED <<process, suspended, options, provider, parsers, stack, pending, log, before>>

\* Faulty variant: the try/catch encloses the loop, so a parse error ends it.
LoadFile_parseErrorEndsLoop ==
    /\ pc = "files"
    /\ fileIdx <= Len(options.files)
    /\ LET filename == options.files[fileIdx]
           parser == selectParser(fileTypeOf(options), filename)
           fileConfig == parseFile(parser, filename)
       IN IF existsSync(filename)
          THEN IF fileConfig.ok
               THEN /\ mergedConfig' = merge(mergedConfig, fileConfig.value)
                    /\ parsers' = Append(parsers, ParserUse(filename, parser, TRUE))
                    /\ fileIdx' = fileIdx + 1
               ELSE /\ mergedConfig' = mergedConfig
                    /\ parsers' = Append(parsers, ParserUse(filename, parser, FALSE))
                    /\ fileIdx' = Len(options.files) + 1
          ELSE /\ mergedConfig' = mergedConfig
               /\ parsers' = Append(parsers, ParserUse(filename, "none", FALSE))
               /\ fileIdx' = fileIdx + 1
    /\ UNCHANGED <<process, baseDirectory, suspended, options, pc, provider, stack, pending, log, before, outcome>>

\* One iteration of `for (const filename of files)`.
LoadFile ==
    /\ pc = "files"
    /\ fileIdx <= Len(options.files)
    /\ LET filename == options.files[fileIdx]
           parser == selectParser(fileTypeOf(options), filename)
           fileConfig == parseFile(parser, filename)
       IN IF existsSync(filename)
          THEN IF fileConfig.ok
               THEN /\ mergedConfig' = merge(mergedConfig, fileConfig.value)
                    /\ parsers' = Append(parsers, ParserUse(filename, parser, TRUE))
               ELSE /\ mergedConfig' = mergedConfig
                    /\ parsers' = Append(parsers, ParserUse(filename, parser, FALSE))
          ELSE /\ mergedConfig' = mergedConfig
               /\ parsers' = Append(parsers, ParserUse(filename, "none", FALSE))
    /\ fileIdx' = fileIdx + 1
    /\ UNCHANGED <<process, baseDirectory, suspended, options, pc, provider, stack, pending, log, before, outcome>>

\* Faulty variant: the loop is left before the last file is read.
EndOfFiles_beforeLastFile ==
    /\ pc = "files"
    /\ fileIdx >= Len(options.files)
    /\ before' = mergedConfig
    /\ IF provider # NoProvider
       THEN /\ pc' = "resolveSecrets"
            /\ stack' = <<Frame(<<>>, KeySeq(mergedConfig))>>
            /\ outcome' = outcome
       ELSE /\ pc' = "done"
            /\ stack' = stack
            /\ outcome' = "returned"
    /\ UNCHANGED <<process, baseDirectory, suspended, options, provider, fileIdx, mergedConfig, parsers, pending, log>>

\* After the loop: resolveSecrets(mergedConfig, '', provider) if there is a
\* provider, else return mergedConfig.
EndOfFiles ==
    /\ pc = "files"
    /\ fileIdx > Len(options.files)
    /\ before' = mergedConfig
    /\ IF provider # NoProvider
       THEN /\ pc' = "resolveSecrets"
            /\ stack' = <<Frame(<<>>, KeySeq(mergedConfig))>>
            /\ outcome' = outcome
       ELSE /\ pc' = "done"
            /\ stack' = stack
            /\ outcome' = "returned"
    /\ UNCHANGED <<process, baseDirectory, suspended, options, provider, fileIdx, mergedConfig, parsers, pending, log>>

Top == stack[Len(stack)]
AtKey == pc = "resolveSecrets" /\ stack # <<>> /\ Top.i <= Len(Top.keys)
CurPath == Append(Top.path, Top.keys[Top.i])
CurValue == GetPath(mergedConfig, CurPath)
Advance == [stack EXCEPT ![Len(stack)].i = Top.i + 1]

\* Faulty variant: the answer of isSecretReference is not heeded.
ExamineString_resolvesAnyString ==
    /\ AtKey
    /\ isString(CurValue)
    /\ \E res \in isSecretReference(provider, CurValue.v) :
          /\ log' = Append(log, IsRefCall(CurPath, CurValue.v, res))
          /\ CASE res \in {"true", "false"} ->
                    /\ pending' = [path |-> CurPath, ref |-> CurValue.v]
                    /\ pc' = "await"
                    /\ UNCHANGED <<stack, outcome>>
               [] OTHER ->
                    /\ pc' = "done"
                    /\ outcome' = "thrown"
                    /\ UNCHANGED <<stack, pending>>
    /\ UNCHANGED <<process, baseDirectory, suspended, options, provider, fileIdx, mergedConfig, parsers, before>>

\* Faulty variant: resolveSecret is started and not awaited.
ExamineString_notAwaited ==
    /\ AtKey
    /\ isString(CurValue)
    /\ \E res \in isSecretReference(provider, CurValue.v) :
          /\ log' = Append(log, IsRefCall(CurPath, CurValue.v, res))
          /\ CASE res = "true" ->
                    /\ pending' = [path |-> CurPath, ref |-> CurValue.v]
                    /\ stack' = Advance
                    /\ UNCHANGED <<pc, outcome>>
               [] res = "false" ->
                    /\ stack' = Advance
                    /\ UNCHANGED <<pending, pc, outcome>>
               [] OTHER ->
                    /\ pc' = "done"
                    /\ outcome' = "thrown"
                    /\ UNCHANGED <<stack, pending>>
    /\ UNCHANGED <<process, baseDirectory, suspended, options, provider, fileIdx, mergedConfig, parsers, before>>

\* isString(config[key]): the provider is asked whether it is a reference;
\* a reference starts a resolveSecret call, which is awaited.
ExamineString ==
    /\ AtKey
    /\ isString(CurValue)
    /\ \E res \in isSecretReference(provider, CurValue.v) :
          /\ log' = Append(log, IsRefCall(CurPath, CurValue.v, res))
          /\ CASE res = "true" ->
                    /\ pending' = [path |-> CurPath, ref |-> CurValue.v]
                    /\ pc' = "await"
                    /\ UNCHANGED <<stack, outcome>>
               [] res = "false" ->
                    /\ stack' = Advance
                    /\ UNCHANGED <<pending, pc, outcome>>
               [] OTHER ->
                    /\ pc' = "done"
                    /\ outcome' = "thrown"
                    /\ UNCHANGED <<stack, pending>>
    /\ UNCHANGED <<process, baseDirectory, suspended, options, provider, fileIdx, mergedConfig, parsers, before>>

\* Faulty variant: no try/catch around resolveSecret.
SettleSecret_rejectionPropagates ==
    /\ pc = "await"
    /\ \E result \in resolveSecret(provider, pending.ref) :
          /\ log' = Append(log, ResolveCall(pending.path, pending.ref, result))
          /\ IF result.ok
             THEN /\ mergedConfig' = SetPath(mergedConfig, pending.path, result.val)
                  /\ stack' = Advance
                  /\ pc' = "resolveSecrets"
                  /\ outcome' = outcome
             ELSE /\ mergedConfig' = mergedConfig
                  /\ stack' = stack
                  /\ pc' = "done"
                  /\ outcome' = "thrown"
    /\ pending' = NoCall
    /\ UNCHANGED <<process, baseDirectory, suspended, options, provider, fileIdx, parsers, before>>

\* Faulty variant: a rejected resolveSecret is tried a second time.
SettleSecret_retriesOnce ==
    /\ pc = "await"
    /\ \E result \in resolveSecret(provider, pending.ref) :
          /\ log' = Append(log, ResolveCall(pending.path, pending.ref, result))
          /\ mergedConfig' = IF result.ok
                             THEN SetPath(mergedConfig, pending.path, result.val)
                             ELSE mergedConfig
          /\ IF ~result.ok /\ \A i \in DOMAIN log :
                                 ~(log[i].op = "resolveSecret" /\ log[i].path = pending.path)
             THEN UNCHANGED <<pending, stack, pc>>
             ELSE /\ pending' = NoCall
                  /\ stack' = Advance
                  /\ pc' = "resolveSecrets"
    /\ UNCHANGED <<process, baseDirectory, suspended, options, provider, fileIdx, parsers, before, outcome>>

\* The awaited resolveSecret settles: its value is written to config[key],
\* or its rejection is caught and logged.
SettleSecret ==
    /\ pc = "await"
    /\ \E result \in resolveSecret(provider, pending.ref) :
          /\ log' = Append(log, ResolveCall(pending.path, pending.ref, result))
          /\ mergedConfig' = IF result.ok
                             THEN SetPath(mergedConfig, pending.path, result.val)
                             ELSE mergedConfig
    /\ pending' = NoCall
    /\ stack' = Advance
    /\ pc' = "resolveSecrets"
    /\ UNCHANGED <<process, baseDirectory, suspended, options, provider, fileIdx, parsers, before, outcome>>

\* Faulty variant: nested objects are passed over.
DescendObject_noRecursion ==
    /\ AtKey
    /\ ~isString(CurValue)
    /\ isObject(CurValue) /\ ~isArray(CurValue)
    /\ stack' = Advance
    /\ UNCHANGED <<process, baseDirectory, suspended, options, pc, provider, fileIdx, mergedConfig, parsers, pending,
                   log, before, outcome>>

\* isObject(config[key]) && !Array.isArray(config[key]): recurse.
DescendObject ==
    /\ AtKey
    /\ ~isString(CurValue)
    /\ isObject(CurValue) /\ ~isArray(CurValue)
    /\ stack' = Append(Advance, Frame(CurPath, KeySeq(CurValue)))
    /\ UNCHANGED <<process, baseDirectory, suspended, options, pc, provider, fileIdx, mergedConfig, parsers, pending,
                   log, before, outcome>>

\* Any other value (number, boolean, null, array) is passed over.
SkipValue ==
    /\ AtKey
    /\ ~isString(CurValue)
    /\ ~(isObject(CurValue) /\ ~isArray(CurValue))
    /\ stack' = Advance
    /\ UNCHANGED <<process, baseDirectory, suspended, options, pc, provider, fileIdx, mergedConfig, parsers, pending,
                   log, before, outcome>>

\* The for-in loop of one resolveSecrets call ends; the outermost call's
\* end lets loadConfigFiles return mergedConfig.
ReturnFromObject ==
    /\ pc = "resolveSecrets"
    /\ stack # <<>>
    /\ Top.i > Len(Top.keys)
    /\ stack' = SubSeq(stack, 1, Len(stack) - 1)
    /\ IF Len(stack) = 1
       THEN pc' = "done" /\ outcome' = "returned"
       ELSE UNCHANGED <<pc, outcome>>
    /\ UNCHANGED <<process, baseDirectory, suspended, options, provider, fileIdx, mergedConfig, parsers, pending, log, before>>

Next ==
    \/ LoadProvider
    \/ BeginLoadConfigFiles
    \/ LoadFile
    \/ EndOfFiles
    \/ ExamineString
    \/ SettleSecret
    \/ DescendObject
    \/ SkipValue
    \/ ReturnFromObject

Spec == Init /\ [][Next]_vars

(***************************************************************************)
(* A built-in provider called on its own: isSecretReference(value) and     *)
(* resolveSecret(secretRef) on any string, with any client.  The log holds *)
(* what was called, the request made on the client and what it settled     *)
(* with.                                                                   *)
(***************************************************************************)
RefStrings ==
    {"localhost", "/app/db", "/app/dev/*",
     "arn:aws:ssm:us-east-1:123456789012:parameter/app/db",
     "arn:aws:secretsmanager:us-east-1:123456789012:secret:db",
     "https://kv.vault.azure.net/secrets/db",
     "https://kv.vault.azure.net/secrets/db/v1",
     "https://other.vault.azure.net/secrets/db",
     "projects/p1/secrets/db/versions/1"}

RequestEntry(request) ==
    [op |-> "request", path |-> <<>>, arg |-> request, res |-> "sent", val |-> Undefined]
ThrowEntry(err) ==
    [op |-> "throw", path |-> <<>>, arg |-> err, res |-> "thrown", val |-> Undefined]
ResponseEntry(response) ==
    [op |-> "response", path |-> <<>>, arg |-> response,
     res |-> IF response.kind = "rejected" THEN "rejected" ELSE "fulfilled", val |-> Undefined]

ProviderInit ==
    /\ provider \in {Provider(kind, client) : kind \in ProviderTags, client \in ClientTypes}
    /\ options = Options(<<>>, "undefined", provider.kind, provider.client)
    /\ pending \in {[path |-> <<>>, ref |-> ref] : ref \in RefStrings}
    /\ process = DefaultProcess
    /\ baseDirectory = Unset
    /\ suspended = NoLoad
    /\ pc = "provider"
    /\ fileIdx = 0
    /\ mergedConfig = EmptyMap
    /\ parsers = <<>>
    /\ stack = <<>>
    /\ log = <<>>
    /\ before = EmptyMap
    /\ outcome = "running"

\* provider.isSecretReference(value): the pattern's test, nothing else.
IsSecretReferenceCall ==
    /\ pc = "provider"
    /\ \E res \in isSecretReference(provider, pending.ref) :
          log' = Append(log, IsRefCall(<<>>, pending.ref, res))
    /\ pc' = "examined"
    /\ UNCHANGED <<process, baseDirectory, suspended, options, provider, fileIdx, mergedConfig, parsers, stack, pending,
                   before, outcome>>

\* provider.resolveSecret(secretRef) up to its await: the request is made
\* on the client, or the call throws before any request.
ResolveSecretCall ==
    /\ pc \in {"provider", "examined"}
    /\ LET request == BackendRequest(provider, pending.ref)
       IN IF request = NoRequest
          THEN /\ log' = log \o <<ThrowEntry(IF provider.kind = "AzureKeyVaultProvider"
                                                 /\ parseSecretReference(Chars(pending.ref)) = <<>>
                                              THEN "Invalid Azure Key Vault secret reference"
                                              ELSE "TypeError"),
                                   ResolveCall(<<>>, pending.ref, Failed)>>
               /\ pc' = "done"
               /\ outcome' = "thrown"
          ELSE /\ log' = Append(log, RequestEntry(request))
               /\ pc' = "backend"
               /\ outcome' = outcome
    /\ UNCHANGED <<process, baseDirectory, suspended, options, provider, fileIdx, mergedConfig, parsers, stack, pending, before>>

\* The request settles and resolveSecret returns a value or throws.
BackendSettles ==
    /\ pc = "backend"
    /\ \E response \in BackendResponses(provider, pending.ref) :
          LET result == resolveSecretWith(provider, pending.ref, response)
          IN /\ log' = log \o <<ResponseEntry(response)>>
                          \o (IF result.ok THEN <<>> ELSE <<ThrowEntry(result.err)>>)
                          \o <<ResolveCall(<<>>, pending.ref, result)>>
             /\ outcome' = IF result.ok THEN "returned" ELSE "thrown"
    /\ pc' = "done"
    /\ UNCHANGED <<process, baseDirectory, suspended, options, provider, fileIdx, mergedConfig, parsers, stack, pending, before>>

ProviderNext ==
    \/ IsSecretReferenceCall
    \/ ResolveSecretCall
    \/ BackendSettles

ProviderSpec == ProviderInit /\ [][ProviderNext]_vars

(***************************************************************************)
(* Two loads with the same options on one service.  One load runs, the     *)
(* other is suspended; control passes from one to the other where a load   *)
(* has not begun, awaits or has returned.  The options object and the      *)
(* process are common to both; the rest is each call's own locals.         *)
(***************************************************************************)
LoadState(p, prov, idx, config, used, stk, call, calls, merged, out, dir) ==
    [pc |-> p, provider |-> prov, fileIdx |-> idx, mergedConfig |-> config,
     parsers |-> used, stack |-> stk, pending |-> call, log |-> calls,
     before |-> merged, outcome |-> out, baseDirectory |-> dir]
Running ==
    LoadState(pc, provider, fileIdx, mergedConfig, parsers, stack, pending, log,
              before, outcome, baseDirectory)
NotBegun ==
    LoadState("load", NoProvider, 0, EmptyMap, <<>>, <<>>, NoCall, <<>>,
              EmptyMap, "running", Unset)

\* The options the two loads share: a client and references in a flat and
\* in a nested file, and two plain files with no provider.
TwoLoadsOptions ==
    {Options(<<"twins.yaml">>, "undefined", "undefined", "SSMClient"),
     Options(<<"secrets.yaml">>, "undefined", "AwsParameterStoreProvider", "SSMClient"),
     Options(<<"base.yaml", "env.yaml">>, "undefined", "undefined", "undefined")}

TwoLoadsInit ==
    /\ options \in TwoLoadsOptions
    /\ process = DefaultProcess
    /\ pc = NotBegun.pc
    /\ provider = NotBegun.provider
    /\ fileIdx = NotBegun.fileIdx
    /\ mergedConfig = NotBegun.mergedConfig
    /\ parsers = NotBegun.parsers
    /\ stack = NotBegun.stack
    /\ pending = NotBegun.pending
    /\ log = NotBegun.log
    /\ before = NotBegun.before
    /\ outcome = NotBegun.outcome
    /\ baseDirectory = NotBegun.baseDirectory
    /\ suspended = NotBegun

\* Faulty variant: the merged tree is kept on the service, one for all loads.
Switch_sharedConfig ==
    /\ suspended # NoLoad
    /\ pc # "files"
    /\ suspended' = Running
    /\ pc' = suspended.pc
    /\ provider' = suspended.provider
    /\ fileIdx' = suspended.fileIdx
    /\ parsers' = suspended.parsers
    /\ stack' = suspended.stack
    /\ pending' = suspended.pending
    /\ log' = suspended.log
    /\ before' = suspended.before
    /\ outcome' = suspended.outcome
    /\ baseDirectory' = suspended.baseDirectory
    /\ UNCHANGED <<options, process, mergedConfig>>

\* The running load awaits (or has not begun, or is over) and the other
\* load goes on; the file loop of loadConfigFiles has no await.
Switch ==
    /\ suspended # NoLoad
    /\ pc # "files"
    /\ suspended' = Running
    /\ pc' = suspended.pc
    /\ provider' = suspended.provider
    /\ fileIdx' = suspended.fileIdx
    /\ mergedConfig' = suspended.mergedConfig
    /\ parsers' = suspended.parsers
    /\ stack' = suspended.stack
    /\ pending' = suspended.pending
    /\ log' = suspended.log
    /\ before' = suspended.before
    /\ outcome' = suspended.outcome
    /\ baseDirectory' = suspended.baseDirectory
    /\ UNCHANGED <<options, process>>

\* The caller of a load that returned writes a key of its own into the tree.
CallerKey == KV("added", Str("by-caller"))
MutateReturned ==
    /\ pc = "done"
    /\ outcome = "returned"
    /\ mergedConfig' = Map(Append(mergedConfig.v, CallerKey))
    /\ outcome' = "mutated"
    /\ UNCHANGED <<process, baseDirectory, suspended, options, pc, provider, fileIdx,
                   parsers, stack, pending, log, before>>

TwoLoadsNext ==
    \/ Next
    \/ Switch
    \/ MutateReturned

TwoLoadsSpec == TwoLoadsInit /\ [][TwoLoadsNext]_vars

(***************************************************************************)
(* Vocabulary of the properties                                            *)
(***************************************************************************)
RECURSIVE AllPaths(_)
\* The key paths of a tree: every path of map keys that leads to a value.
AllPaths(tree) ==
    IF ~isPlainObject(tree) THEN {}
    ELSE UNION {{<<e.k>>} \cup {<<e.k>> \o q : q \in AllPaths(e.v)} :
                  e \in {tree.v[i] : i \in DOMAIN tree.v}}

isScalar(x) == x.t \in {"str", "num", "bool", "null"}
StringLeafPaths(tree) == {q \in AllPaths(tree) : isString(GetPath(tree, q))}
ProperPrefixes(path) == {SubSeq(path, 1, n) : n \in 1..(Len(path) - 1)}

Returned == pc = "done" /\ outcome = "returned"
FileTree(i) == FileSystem(options.files[i]).text.tree
\* The files of the list that exist and that the selected parser accepts.
GoodFile(i) ==
    /\ existsSync(options.files[i])
    /\ parseFile(selectParser(fileTypeOf(options), options.files[i]), options.files[i]).ok
GoodFiles == {i \in DOMAIN options.files : GoodFile(i)}
AllFilesGood == GoodFiles = DOMAIN options.files
Defining(path) == {i \in GoodFiles : GetPath(FileTree(i), path) # Undefined}
LastOf(S) == CHOOSE i \in S : \A j \in S : j <= i
\* No file puts anything but a map (or nothing) above the path.
MapsAbove(path) ==
    \A q \in ProperPrefixes(path) : \A i \in Defining(q) : isPlainObject(GetPath(FileTree(i), q))
FilePaths == UNION {AllPaths(FileTree(i)) : i \in GoodFiles}
\* The tree as merged from the files, before any secret is resolved.
MergedTree == IF Len(options.files) = 0 THEN EmptyMap ELSE before

(***************************************************************************)
(* C1  Deep merge, left to right.  When every file of the list exists and  *)
(* parses, the tree load returns (no provider) is such that: a key path    *)
(* that the files define with scalar values only, under maps only, holds   *)
(* the value of the last file that defines it; a key path that the files   *)
(* define with maps only holds a map whose keys are the union of those     *)
(* maps' keys.  {a:{x:1,y:2}} then {a:{y:3,z:4}} gives a = {x:1,y:3,z:4}.  *)
(***************************************************************************)
C1_DeepMerge ==
    (Returned /\ provider = NoProvider /\ AllFilesGood) =>
        /\ \A q \in FilePaths :
              (MapsAbove(q) /\ \A i \in Defining(q) : isScalar(GetPath(FileTree(i), q)))
                  => GetPath(mergedConfig, q) = GetPath(FileTree(LastOf(Defining(q))), q)
        /\ \A q \in FilePaths :
              (MapsAbove(q) /\ \A i \in Defining(q) : isPlainObject(GetPath(FileTree(i), q)))
                  => /\ isPlainObject(GetPath(mergedConfig, q))
                     /\ Keys(GetPath(mergedConfig, q))
                          = UNION {Keys(GetPath(FileTree(i), q)) : i \in Defining(q)}
        /\ Keys(mergedConfig) = UNION {Keys(FileTree(i)) : i \in GoodFiles}
        /\ options.files = <<"base.yaml", "env.yaml">> =>
              GetPath(mergedConfig, <<"a">>)
                 = Map(<< KV("x", Num(1)), KV("y", Num(3)), KV("z", Num(4)) >>)

C1_Witness ==
    /\ Returned
    /\ provider = NoProvider
    /\ options.files = <<"base.yaml", "env.yaml">>
    /\ GetPath(mergedConfig, <<"a", "y">>) = Num(3)
    /\ GetPath(mergedConfig, <<"a", "x">>) = Num(1)
    /\ GetPath(mergedConfig, <<"s">>) = Str("localhost")

LogAt(op, path) == {i \in DOMAIN log : log[i].op = op /\ log[i].path = path}
Resolutions == {i \in DOMAIN log : log[i].op = "resolveSecret" /\ log[i].res = "resolved"}
Rejections == {i \in DOMAIN log : log[i].op = "resolveSecret" /\ log[i].res = "rejected"}
Resolving == pc \in {"resolveSecrets", "await"} \/ (pc = "done" /\ Len(options.files) > 0)
IsStringArray(x) == isArray(x) /\ x.p = <<>> /\ \A i \in DOMAIN x.v : isString(x.v[i])

(***************************************************************************)
(* C2  After a load with a provider has returned, every string held under  *)
(* a map key of the merged tree, at any depth, was shown to the provider;  *)
(* where isSecretReference answered true, resolveSecret was called with    *)
(* that string, and where it succeeded the key now holds exactly the value *)
(* it returned.                                                            *)
(***************************************************************************)
C2_SecretsReplaced ==
    (Returned /\ provider # NoProvider) =>
        \A q \in StringLeafPaths(MergedTree) :
            /\ LogAt("isSecretReference", q) # {}
            /\ \A i \in LogAt("isSecretReference", q) :
                  /\ log[i].arg = GetPath(MergedTree, q).v
                  /\ log[i].res = "true" =>
                        \E j \in LogAt("resolveSecret", q) :
                            /\ j > i
                            /\ log[j].arg = log[i].arg
                            /\ log[j].res = "resolved" =>
                                  GetPath(mergedConfig, q) = log[j].val

C2_Witness ==
    /\ Returned
    /\ provider.kind = "GoogleSecretManagerProvider"
    /\ GetPath(before, <<"db", "opts", "token">>) = Str(RefGooglePath)
    /\ GetPath(mergedConfig, <<"db", "opts", "token">>) = Str(SecretOf(RefGooglePath))

(***************************************************************************)
(* C3  Partial-failure isolation.  Once a resolveSecret call has been      *)
(* rejected: the leaf it was for still holds its reference string, every   *)
(* leaf whose call succeeded (before or after it) holds the value          *)
(* returned, the rejection is not thrown to the caller (only a throwing    *)
(* isSecretReference ends a load abnormally), and a load that has returned *)
(* has examined every string leaf and called resolveSecret for every       *)
(* recognized one.                                                         *)
(***************************************************************************)
C3_PartialFailureIsolation ==
    Rejections # {} =>
        /\ \A i \in Rejections :
              /\ GetPath(mergedConfig, log[i].path) = Str(log[i].arg)
              /\ GetPath(before, log[i].path) = Str(log[i].arg)
        /\ \A j \in Resolutions : GetPath(mergedConfig, log[j].path) = log[j].val
        /\ outcome = "thrown" =>
              log[Len(log)].op = "isSecretReference" /\ log[Len(log)].res = "throw"
        /\ pc = "done" => outcome \in {"returned", "thrown"}
        /\ Returned =>
              \A q \in StringLeafPaths(before) :
                  /\ LogAt("isSecretReference", q) # {}
                  /\ \A i \in LogAt("isSecretReference", q) :
                        log[i].res = "true" => LogAt("resolveSecret", q) # {}

C3_Witness ==
    /\ Returned
    /\ \E i \in Rejections : log[i].path = <<"db", "password">>
    /\ \E j \in Resolutions : log[j].path = <<"db", "opts", "token">>
    /\ \E j \in Resolutions : log[j].path = <<"api">>
    /\ GetPath(mergedConfig, <<"db", "password">>) = Str(RefSsmPath)
    /\ GetPath(mergedConfig, <<"api">>) = Str(SecretOf(RefSecretsManagerArn))

RECURSIVE MergeOf(_)
\* The merge, in order, of the trees of the good files among the first n.
MergeOf(n) ==
    IF n = 0 THEN EmptyMap
    ELSE IF GoodFile(n) THEN merge(MergeOf(n - 1), FileTree(n))
         ELSE MergeOf(n - 1)

(***************************************************************************)
(* C4  A file that does not exist, or that the selected parser rejects,    *)
(* contributes nothing and raises no error: the merged tree is the merge,  *)
(* in list order, of the remaining files alone, and it is the empty map    *)
(* when no file remains.                                                   *)
(***************************************************************************)
C4_BadFilesContributeNothing ==
    pc = "done" =>
        /\ MergedTree = MergeOf(Len(options.files))
        /\ GoodFiles = {} => (MergedTree = EmptyMap /\ mergedConfig = EmptyMap)
        /\ provider = NoProvider => (Returned /\ mergedConfig = MergedTree)
        /\ Len(parsers) = Len(options.files)
        /\ \A i \in DOMAIN parsers : parsers[i].loaded <=> GoodFile(i)

C4_Witness ==
    /\ Returned
    /\ options.files = <<"broken.yaml", "base.yaml">>
    /\ mergedConfig = FileSystem("base.yaml").text.tree

(***************************************************************************)
(* C5  Frame of secret resolution.  In every state of the resolution pass  *)
(* and after it, a value under a map key that is not a map differs from    *)
(* what the merge produced only if it was a string that isSecretReference  *)
(* accepted and resolveSecret resolved: strings the provider rejected,     *)
(* numbers, booleans, nulls and arrays (with all their contents) are as    *)
(* merged.                                                                 *)
(***************************************************************************)
C5_OnlyRecognizedStringsChange ==
    Resolving =>
        \A q \in AllPaths(before) :
            LET old == GetPath(before, q)
                new == GetPath(mergedConfig, q)
            IN (~isPlainObject(old) /\ new # old) =>
                  /\ isString(old)
                  /\ \E i \in LogAt("isSecretReference", q) :
                        log[i].res = "true" /\ log[i].arg = old.v
                  /\ \E j \in LogAt("resolveSecret", q) :
                        log[j].res = "resolved" /\ log[j].val = new
                  /\ \A i \in LogAt("isSecretReference", q) : log[i].res = "true"

C5_Witness ==
    /\ Returned
    /\ provider.kind = "AwsParameterStoreProvider"
    /\ GetPath(mergedConfig, <<"db", "password">>) = Str(SecretOf(RefSsmPath))
    /\ GetPath(mergedConfig, <<"vault">>) = Str(RefAzureUrl)
    /\ GetPath(mergedConfig, <<"db", "host">>) = Str("localhost")
    /\ GetPath(mergedConfig, <<"port">>) = Num(5432)
    /\ GetPath(mergedConfig, <<"none">>) = Null
    /\ GetPath(mergedConfig, <<"refs">>)
          = Arr(<< Str(RefSsmPath), Map(<< KV("k", Str(RefSsmPath)) >>) >>)

(***************************************************************************)
(* C6  Secret resolution never alters the tree's shape.  In every state of *)
(* the resolution pass and after it, the key paths of the tree, the keys   *)
(* of every map and their order are those the merge produced, every map is *)
(* still a map, and a resolved leaf holds a string or an array of strings. *)
(***************************************************************************)
C6_ShapePreserved ==
    Resolving =>
        /\ AllPaths(mergedConfig) = AllPaths(before)
        /\ KeySeq(mergedConfig) = KeySeq(before)
        /\ \A q \in AllPaths(before) :
              /\ isPlainObject(GetPath(before, q)) <=> isPlainObject(GetPath(mergedConfig, q))
              /\ isPlainObject(GetPath(before, q)) =>
                    KeySeq(GetPath(mergedConfig, q)) = KeySeq(GetPath(before, q))
        /\ \A j \in Resolutions :
              LET new == GetPath(mergedConfig, log[j].path)
              IN isString(new) \/ IsStringArray(new)

C6_Witness ==
    /\ pc = "resolveSecrets"
    /\ provider = CustomProvider
    /\ IsStringArray(GetPath(mergedConfig, <<"db", "password">>))
    /\ isString(GetPath(mergedConfig, <<"db", "opts", "token">>))
    /\ \E j \in Resolutions : log[j].path = <<"db", "opts", "token">>

RegisteredClients == {"SecretsManager", "SSMClient", "SecretClient", "SecretManagerServiceClient"}
NoProviderOptions ==
    /\ options.provider = "undefined"
    /\ options.client \notin RegisteredClients

(***************************************************************************)
(* C7  When the options yield no provider (no provider and no client, or   *)
(* no provider and a client whose constructor name is not in the           *)
(* registry), load returns, no isSecretReference or resolveSecret call is  *)
(* ever made, and the tree returned is the merged tree, reference-like     *)
(* strings included.                                                       *)
(***************************************************************************)
C7_NoProviderSkipsResolution ==
    (NoProviderOptions /\ pc # "load") =>
        /\ provider = NoProvider
        /\ log = <<>>
        /\ pending = NoCall
        /\ stack = <<>>
        /\ outcome # "thrown"
        /\ pc = "done" => (Returned /\ mergedConfig = MergedTree)

C7_Witness ==
    /\ Returned
    /\ options.provider = "undefined"
    /\ options.client = "SecretsManagerClient"
    /\ options.files = <<"secrets.yaml">>
    /\ mergedConfig = SecretsTree

(***************************************************************************)
(* C8  load always terminates successfully with a tree: nothing raised     *)
(* while files are read, the provider is detected, or a leaf is examined   *)
(* or resolved is thrown to the caller.                                    *)
(***************************************************************************)
C8_LoadNeverThrows ==
    /\ outcome # "thrown"
    /\ pc = "done" => (outcome = "returned" /\ isPlainObject(mergedConfig))

(***************************************************************************)
(* C9  When the files that define a key all hold an array there, the       *)
(* merged value is exactly the array of the last of them.                  *)
(***************************************************************************)
C9_LaterArrayReplaces ==
    Returned =>
        \A q \in FilePaths :
            (/\ Cardinality(Defining(q)) >= 2
             /\ MapsAbove(q)
             /\ \A i \in Defining(q) : isArray(GetPath(FileTree(i), q)))
                => GetPath(MergedTree, q) = GetPath(FileTree(LastOf(Defining(q))), q)

(***************************************************************************)
(* C10  When fileType is given, every file that is read is parsed by the   *)
(* parser fileType names, whatever the file's extension.                   *)
(***************************************************************************)
C10_FileTypeDecidesParser ==
    options.fileType # "undefined" =>
        \A i \in DOMAIN parsers :
            parsers[i].parser # "none" => parsers[i].parser = options.fileType

\* The parser the extension of a file name calls for.
parserByExtension(filename) ==
    IF endsWith(Chars(filename), Chars(".yml")) \/ endsWith(Chars(filename), Chars(".yaml"))
    THEN "yaml" ELSE "json"

(***************************************************************************)
(* C11  When fileType is not given, every file that is read is parsed by   *)
(* the parser its extension calls for: YAML for .yml and .yaml, JSON for   *)
(* every other name; so a JSON file that only JSON.parse accepts is        *)
(* loaded.                                                                 *)
(***************************************************************************)
C11_ExtensionDecidesParser ==
    options.fileType = "undefined" =>
        /\ \A i \in DOMAIN parsers :
              parsers[i].parser # "none" =>
                  parsers[i].parser = parserByExtension(parsers[i].file)
        /\ (Returned /\ options.files = <<"dup.json">> /\ provider = NoProvider) =>
              mergedConfig = FileSystem("dup.json").text.tree

(***************************************************************************)
(* C12  When options.provider is a provider instance, the provider of the  *)
(* load is that instance, with or without a client beside it: no built-in  *)
(* provider is constructed and the client is wrapped by nothing.           *)
(***************************************************************************)
C12_InstanceReturnedUnchanged ==
    (options.provider = CustomInstance /\ pc # "load") =>
        /\ provider = CustomProvider
        /\ provider.kind \notin ProviderTags
        /\ provider.client = "undefined"

C12_Witness ==
    /\ pc = "done"
    /\ options.provider = CustomInstance
    /\ options.client = "SSMClient"
    /\ provider = CustomProvider
    /\ log # <<>>

(***************************************************************************)
(* C13  When options.provider is one of the four type tags and a client is *)
(* present, the provider of the load is the one the tag names and it wraps *)
(* that client, whatever the client's constructor name is.                 *)
(***************************************************************************)
C13_TagDecidesProvider ==
    (options.provider \in ProviderTags /\ options.client # "undefined" /\ pc # "load") =>
        /\ provider.kind = options.provider
        /\ provider.client = options.client

C13_Witness ==
    /\ pc = "done"
    /\ options.provider = "GoogleSecretManagerProvider"
    /\ options.client = "SSMClient"
    /\ provider = Provider("GoogleSecretManagerProvider", "SSMClient")

\* The provider the documentation pairs with a client's constructor name.
DocumentedProviderOf(client) ==
    CASE client \in {"SecretsManager", "SecretsManagerClient"} -> "AwsSecretsManagerProvider"
      [] client \in {"SSMClient", "SSM"} -> "AwsParameterStoreProvider"
      [] client = "SecretClient" -> "AzureKeyVaultProvider"
      [] client = "SecretManagerServiceClient" -> "GoogleSecretManagerProvider"
      [] OTHER -> "undefined"

(***************************************************************************)
(* C14  With no provider tag, a client of one of the four services yields  *)
(* the provider of its service, wrapping it: SecretsManager and            *)
(* SecretsManagerClient the Secrets Manager provider, SSMClient and SSM    *)
(* the Parameter Store provider, SecretClient the Key Vault provider,      *)
(* SecretManagerServiceClient the Google provider.                         *)
(***************************************************************************)
C14_ClientAutoDetected ==
    (/\ options.provider = "undefined"
     /\ DocumentedProviderOf(options.client) # "undefined"
     /\ pc # "load") =>
        provider = Provider(DocumentedProviderOf(options.client), options.client)

\* The tag names one service and the client belongs to another.
Conflicting ==
    /\ options.provider \in ProviderTags
    /\ DocumentedProviderOf(options.client) \notin {"undefined", options.provider}

(***************************************************************************)
(* C15  When the provider tag and the client conflict, the load does not   *)
(* fail and secret resolution is skipped: resolveSecret is never called    *)
(* and the tree returned is the merged tree.                               *)
(***************************************************************************)
C15_ConflictSkipsResolution ==
    (Conflicting /\ pc # "load") =>
        /\ outcome # "thrown"
        /\ \A i \in DOMAIN log : log[i].op # "resolveSecret"
        /\ pc # "await"
        /\ pc = "done" => (Returned /\ mergedConfig = MergedTree)

\* The reference forms each provider's pattern is documented to match.
PatternForms(kind) ==
    CASE kind = "AwsParameterStoreProvider" ->
           {"/app/db", "arn:aws:ssm:us-east-1:123456789012:parameter/app/db"}
      [] kind = "AwsSecretsManagerProvider" ->
           {"arn:aws:secretsmanager:us-east-1:123456789012:secret:db"}
      [] kind = "AzureKeyVaultProvider" ->
           {"https://kv.vault.azure.net/secrets/db",
            "https://kv.vault.azure.net/secrets/db/v1",
            "https://other.vault.azure.net/secrets/db"}
      [] kind = "GoogleSecretManagerProvider" ->
           {"projects/p1/secrets/db/versions/1"}
\* Every string that one of the other providers takes as a reference,
\* Parameter Store's path-prefix form included.
ForeignForms(kind) ==
    UNION {PatternForms(other) \cup
             (IF other = "AwsParameterStoreProvider" THEN {"/app/dev/*"} ELSE {}) :
           other \in ProviderTags \ {kind}}
NonReferences == {"localhost"}
Examined == pc = "examined"

Requests == {i \in DOMAIN log : log[i].op = "request"}
Settled == pc = "done" /\ \E i \in DOMAIN log : log[i].op = "response"
TheResponse == log[CHOOSE i \in DOMAIN log : log[i].op = "response"].arg
TheResult == log[Len(log)]
Fulfilled(kind) == Settled /\ TheResponse.kind = kind
Threw == outcome = "thrown" /\ TheResult.op = "resolveSecret" /\ TheResult.res = "rejected"
PathPrefixCall ==
    /\ provider.kind = "AwsParameterStoreProvider"
    /\ endsWith(Chars(pending.ref), <<"/", "*">>)
PathLookupOf(ref) ==
    /\ Cardinality(Requests) <= 1
    /\ pc \in {"backend", "done"} => Cardinality(Requests) = 1
    /\ \A i \in Requests :
          /\ log[i].arg.method = "send"
          /\ log[i].arg.command = "GetParametersByPathCommand"
          /\ log[i].arg.target \o <<"/", "*">> = Chars(ref)
          /\ log[i].arg.WithDecryption
          /\ log[i].arg.Recursive
HasValue(v) == v # ""
StrSeq(values) == [i \in DOMAIN values |-> Str(values[i])]

(***************************************************************************)
(* C17 (as stated)  For a Parameter Store reference ending in '/*',        *)
(* resolveSecret makes one recursive, decrypting path lookup on the        *)
(* reference without its '/*' and returns an array with exactly one        *)
(* element per parameter of the response, in the response's order.         *)
(***************************************************************************)
C17_OneElementPerParameter ==
    (PathPrefixCall /\ hasMethod(provider.client, "send")) =>
        /\ PathLookupOf(pending.ref)
        /\ (/\ Fulfilled("GetParametersByPath")
            /\ TheResponse.hasParameters
            /\ Len(TheResponse.values) > 0) =>
              /\ outcome = "returned"
              /\ TheResult.val = Arr(StrSeq(TheResponse.values))

(***************************************************************************)
(* C17 (amended)  For a Parameter Store reference ending in '/*',          *)
(* resolveSecret makes one recursive, decrypting path lookup on the        *)
(* reference without its '/*' and returns an array holding, in the         *)
(* response's order, the value of every parameter of the response that has *)
(* a non-empty value; parameters without a value are left out.             *)
(***************************************************************************)
C17_ValuesOfParametersWithValue ==
    (PathPrefixCall /\ hasMethod(provider.client, "send")) =>
        /\ PathLookupOf(pending.ref)
        /\ (/\ Fulfilled("GetParametersByPath")
            /\ TheResponse.hasParameters
            /\ Len(TheResponse.values) > 0) =>
              /\ outcome = "returned"
              /\ TheResult.val = Arr(StrSeq(SelectSeq(TheResponse.values, HasValue)))

C17_Witness ==
    /\ PathPrefixCall
    /\ pending.ref = "/app/dev/*"
    /\ Fulfilled("GetParametersByPath")
    /\ TheResponse.values = <<"first-value", "", "second-value">>
    /\ \E i \in Requests : log[i].arg.target = <<"/", "a", "p", "p", "/", "d", "e", "v">>
    /\ TheResult.val = Arr(<<Str("first-value"), Str("second-value")>>)

(***************************************************************************)
(* C18  resolveSecret of a built-in provider throws, and returns nothing,  *)
(* when the response carries no value: Parameter Store when a path lookup  *)
(* has no parameter list or an empty one, or a single lookup has no        *)
(* parameter or an empty value; Secrets Manager when SecretString and      *)
(* SecretBinary are both absent; Key Vault when the response or its value  *)
(* is missing or empty; Google when the payload or its data is absent.     *)
(***************************************************************************)
C18_NoValueThrows ==
    /\ (Fulfilled("GetParametersByPath")
          /\ (~TheResponse.hasParameters \/ Len(TheResponse.values) = 0)) => Threw
    /\ (Fulfilled("GetParameter")
          /\ (~TheResponse.hasParameter \/ TheResponse.value = "")) => Threw
    /\ (Fulfilled("GetSecretValue")
          /\ TheResponse.SecretString = "" /\ TheResponse.SecretBinary = "") => Threw
    /\ (Fulfilled("getSecret")
          /\ (TheResponse.isNull \/ TheResponse.value = "")) => Threw
    /\ (Fulfilled("accessSecretVersion")
          /\ (~TheResponse.hasPayload \/ TheResponse.data = "")) => Threw
    /\ Threw => TheResult.val = Undefined

C18_Witness ==
    /\ Fulfilled("GetParameter")
    /\ TheResponse.hasParameter
    /\ TheResponse.value = ""
    /\ Threw

C21_VersionFetched ==
    provider.kind = "AzureKeyVaultProvider" =>
        \A i \in Requests :
            /\ pending.ref = "https://kv.vault.azure.net/secrets/db/v1" =>
                  log[i].arg.version = <<"v", "1">>
            /\ pending.ref = "https://kv.vault.azure.net/secrets/db" =>
                  log[i].arg.version = <<>>

\* The method of the client a provider calls.
ClientMethod(kind) ==
    CASE kind = "AwsParameterStoreProvider" -> "send"
      [] kind = "AwsSecretsManagerProvider" -> "getSecretValue"
      [] kind = "AzureKeyVaultProvider" -> "getSecret"
      [] kind = "GoogleSecretManagerProvider" -> "accessSecretVersion"
WellFormed ==
    \/ isSecretReference(provider, pending.ref) = {"true"}
    \/ PathPrefixCall /\ Chars(pending.ref)[1] = "/"
Responses == {i \in DOMAIN log : log[i].op = "response"}
Thrown == {i \in DOMAIN log : log[i].op = "throw"}

(***************************************************************************)
(* C22  One call of a built-in provider's resolveSecret makes at most one  *)
(* request on the client, exactly one for a well-formed reference (a       *)
(* path-prefix reference included), none after a response has come (no    *)
(* retry); and when the request is rejected, resolveSecret throws the very *)
(* error the request was rejected with.                                    *)
(***************************************************************************)
C22_OneCallErrorsUnchanged ==
    /\ Cardinality(Requests) <= 1
    /\ Cardinality(Responses) <= 1
    /\ \A i \in Requests : \A j \in Responses : i < j
    /\ (pc \in {"backend", "done"} /\ WellFormed
          /\ hasMethod(provider.client, ClientMethod(provider.kind))) =>
             Cardinality(Requests) = 1
    /\ (Settled /\ TheResponse.kind = "rejected") =>
          /\ Threw
          /\ Cardinality(Thrown) = 1
          /\ \A i \in Thrown : log[i].arg = TheResponse.error

C22_Witness ==
    /\ Settled
    /\ provider = Provider("GoogleSecretManagerProvider", "SecretManagerServiceClient")
    /\ pending.ref = "projects/p1/secrets/db/versions/1"
    /\ TheResponse = RejectedWith("ThrottlingException")
    /\ Cardinality(Requests) = 1
    /\ \E i \in Thrown : log[i].arg = "ThrottlingException"

\* A value resolveSecret may not return: '', [], or an array holding
\* anything but non-empty strings.
EmptyResult(val) ==
    \/ val = Str("")
    \/ isArray(val) /\ (val.v = <<>> \/ \E i \in DOMAIN val.v : ~isString(val.v[i]) \/ val.v[i].v = "")
    \/ ~isString(val) /\ ~isArray(val)

(***************************************************************************)
(* C28  A resolveSecret of a built-in provider that returns, returns a     *)
(* non-empty string or a non-empty array of non-empty strings.             *)
(***************************************************************************)
C28_NoEmptyResult ==
    (pc = "done" /\ outcome = "returned") =>
        /\ TheResult.op = "resolveSecret"
        /\ TheResult.res = "resolved"
        /\ ~EmptyResult(TheResult.val)

(***************************************************************************)
(* C30  Key Vault resolveSecret looks at the secret-name segment of the    *)
(* reference only: the request it makes names the secret and nothing of    *)
(* the vault host, so references to the same secret name in two vaults     *)
(* make the same request on the one client.                                *)
(***************************************************************************)
C30_VaultHostIgnored ==
    (provider.kind = "AzureKeyVaultProvider"
       /\ pending.ref \in {"https://kv.vault.azure.net/secrets/db",
                           "https://other.vault.azure.net/secrets/db"}) =>
        \A i \in Requests :
            /\ log[i].arg = BackendRequest(provider, "https://kv.vault.azure.net/secrets/db")
            /\ log[i].arg = BackendRequest(provider, "https://other.vault.azure.net/secrets/db")
            /\ log[i].arg = Request("getSecret", "none", <<"d", "b">>, <<>>, FALSE, FALSE)

C30_Witness ==
    /\ provider = Provider("AzureKeyVaultProvider", "SecretClient")
    /\ pending.ref = "https://other.vault.azure.net/secrets/db"
    /\ Settled
    /\ \E i \in Requests : log[i].arg.target = <<"d", "b">>
    /\ TheResult.val = Str(SecretOf("https://other.vault.azure.net/secrets/db"))

Calls(op) == {i \in DOMAIN log : log[i].op = op}

(***************************************************************************)
(* C25  In one load, isSecretReference is called at most once for a map    *)
(* key, always on the string the merge left there, and resolveSecret at    *)
(* most once, only right after isSecretReference accepted that string; a   *)
(* load that returns has called isSecretReference exactly once for every   *)
(* map-level string of the merged tree and resolveSecret exactly once for  *)
(* every accepted one, leaf by leaf also where two leaves hold the same    *)
(* reference; a resolved value is written as returned.                     *)
(***************************************************************************)
C25_OncePerLeaf ==
    (Resolving /\ provider # NoProvider) =>
        /\ \A i \in Calls("isSecretReference") :
              /\ LogAt("isSecretReference", log[i].path) = {i}
              /\ log[i].path \in StringLeafPaths(before)
              /\ Str(log[i].arg) = GetPath(before, log[i].path)
        /\ \A j \in Calls("resolveSecret") :
              /\ LogAt("resolveSecret", log[j].path) = {j}
              /\ j > 1
              /\ log[j - 1].op = "isSecretReference"
              /\ log[j - 1].path = log[j].path
              /\ log[j - 1].arg = log[j].arg
              /\ log[j - 1].res = "true"
              /\ log[j].res = "resolved" => GetPath(mergedConfig, log[j].path) = log[j].val
        /\ Returned =>
              /\ \A q \in StringLeafPaths(before) :
                    /\ Cardinality(LogAt("isSecretReference", q)) = 1
                    /\ Cardinality(LogAt("resolveSecret", q))
                         = Cardinality({i \in LogAt("isSecretReference", q) : log[i].res = "true"})
              /\ Cardinality(Calls("isSecretReference")) = Cardinality(StringLeafPaths(before))

C25_Witness ==
    /\ Returned
    /\ options.files = <<"twins.yaml">>
    /\ provider.kind = "AwsParameterStoreProvider"
    /\ \E i \in LogAt("resolveSecret", <<"primary">>) :
          log[i].arg = RefSsmPath /\ log[i].res = "resolved"
    /\ \E j \in LogAt("resolveSecret", <<"replica">>) :
          log[j].arg = RefSsmPath /\ log[j].res = "rejected"
    /\ Cardinality(Calls("isSecretReference")) = 3
    /\ Cardinality(Calls("resolveSecret")) = 2

RECURSIVE DfsStrings(_, _)
\* The paths of the map-level strings of a tree, depth first in key order.
DfsStrings(tree, prefix) ==
    IF ~isPlainObject(tree) \/ tree.v = <<>> THEN <<>>
    ELSE LET e == Head(tree.v)
             here == IF isString(e.v) THEN <<Append(prefix, e.k)>>
                     ELSE DfsStrings(e.v, Append(prefix, e.k))
         IN here \o DfsStrings(Map(Tail(tree.v)), prefix)
IsExamination(entry) == entry.op = "isSecretReference"
Examinations == SelectSeq(log, IsExamination)
\* The resolveSecret calls started and not yet settled.
Outstanding ==
    {i \in Calls("isSecretReference") :
        log[i].res = "true" /\ \A j \in LogAt("resolveSecret", log[i].path) : j < i}

(***************************************************************************)
(* C26  During secret resolution at most one resolveSecret call is         *)
(* outstanding; the leaves are examined in the depth-first key order of    *)
(* the tree, and an accepted leaf's call has settled, and its value been   *)
(* written or the leaf left, before the next leaf is examined.             *)
(***************************************************************************)
C26_OneAtATime ==
    (Resolving /\ provider # NoProvider) =>
        /\ Cardinality(Outstanding) <= 1
        /\ Outstanding # {} <=> pc = "await"
        /\ \A i \in Outstanding : i = Len(log) /\ pending.path = log[i].path
        /\ \A i \in Calls("isSecretReference") :
              (log[i].res = "true" /\ i < Len(log)) =>
                  /\ log[i + 1].op = "resolveSecret"
                  /\ log[i + 1].path = log[i].path
        /\ Len(Examinations) <= Len(DfsStrings(before, <<>>))
        /\ \A n \in DOMAIN Examinations : Examinations[n].path = DfsStrings(before, <<>>)[n]
        /\ \A j \in Calls("resolveSecret") :
              IF log[j].res = "resolved"
              THEN GetPath(mergedConfig, log[j].path) = log[j].val
              ELSE GetPath(mergedConfig, log[j].path) = Str(log[j].arg)

C26_Witness ==
    /\ pc = "await"
    /\ options.files = <<"secrets.yaml">>
    /\ provider = CustomProvider
    /\ pending.path = <<"db", "opts", "token">>
    /\ \E j \in LogAt("resolveSecret", <<"db", "password">>) : log[j].res = "resolved"
    /\ GetPath(mergedConfig, <<"db", "password">>) = Str(SecretOf(RefSsmPath))
    /\ Cardinality(Outstanding) = 1

\* A reference that Parameter Store's resolveSecret takes for a path prefix.
IsPathPrefix(ref) == Chars(ref)[1] = "/" /\ endsWith(Chars(ref), <<"/", "*">>)

(***************************************************************************)
(* C27  A Parameter Store path-prefix reference (a path beginning with '/' *)
(* and ending in '/*') is accepted by the provider's isSecretReference,    *)
(* and a load with this provider and its client's values replaces such a   *)
(* config value by the array of values.                                    *)
(***************************************************************************)
C27_PathPrefixAccepted ==
    provider.kind = "AwsParameterStoreProvider" =>
        /\ \A i \in Calls("isSecretReference") :
              IsPathPrefix(log[i].arg) => log[i].res = "true"
        /\ (Returned /\ options.files = <<"twins.yaml">>) =>
              \/ isArray(GetPath(mergedConfig, <<"all">>))
              \/ LogAt("resolveSecret", <<"all">>) # {}

\* The directory dir/name, and the directory above dir, written without
\* the path functions.
Under(dir, name) ==
    (IF dir[Len(dir)] = "/" THEN SubSeq(dir, 1, Len(dir) - 1) ELSE dir) \o <<"/">> \o name
Above(dir) ==
    LET d == IF dir[Len(dir)] = "/" THEN SubSeq(dir, 1, Len(dir) - 1) ELSE dir
        slashes == {i \in DOMAIN d : d[i] = "/"}
        last == CHOOSE i \in slashes : \A j \in slashes : j <= i
    IN SubSeq(d, 1, last - 1)
BaseDirectoryResolved == baseDirectory # Unset

ProviderResolved == pc # "load"
FilesMerged ==
    /\ Len(parsers) = Len(options.files)
    /\ fileIdx > Len(options.files) \/ options.files = <<>>
SecretsStarted == pc \in {"resolveSecrets", "await"} \/ log # <<>>
StageRank(p) ==
    CASE p = "load" -> 0
      [] p = "loadConfigFiles" -> 1
      [] p = "files" -> 2
      [] p \in {"resolveSecrets", "await"} -> 3
      [] OTHER -> 4

StageOrder ==
    /\ ~ProviderResolved =>
          (provider = NoProvider /\ ~BaseDirectoryResolved /\ parsers = <<>> /\ fileIdx = 0)
    /\ BaseDirectoryResolved <=> StageRank(pc) >= 2
    /\ parsers # <<>> => (BaseDirectoryResolved /\ ProviderResolved)
    /\ SecretsStarted => (FilesMerged /\ ProviderResolved /\ provider # NoProvider)
    /\ pc = "done" => (FilesMerged \/ outcome = "thrown")
\* What holds of every step: no stage is gone back to, and each stage's
\* work is done in that stage only.
StageStep ==
    /\ StageRank(pc') >= StageRank(pc)
    /\ provider' # provider => pc = "load"
    /\ baseDirectory' # baseDirectory => (pc = "loadConfigFiles" /\ ~BaseDirectoryResolved)
    /\ (parsers' # parsers \/ fileIdx' # fileIdx) =>
          (StageRank(pc) \in {1, 2} /\ StageRank(pc') = 2)
    /\ log' # log => StageRank(pc) = 3
    /\ StageRank(pc) \in {0, 1} => StageRank(pc') = StageRank(pc) + 1 \/ pc' = "done"

RECURSIVE Applied(_, _)
\* The tree with the resolved values of a call log written at their paths.
Applied(tree, calls) ==
    IF calls = <<>> THEN tree
    ELSE LET c == Head(calls)
         IN Applied(IF c.op = "resolveSecret" /\ c.res = "resolved"
                    THEN SetPath(tree, c.path, c.val) ELSE tree,
                    Tail(calls))
\* What a load on its own holds, given the answers its own calls got.
Alone(l) ==
    /\ l.pc \in {"load", "loadConfigFiles"} =>
          (l.mergedConfig = EmptyMap /\ l.parsers = <<>> /\ l.log = <<>>)
    /\ l.pc \in {"resolveSecrets", "await", "done"} =>
          /\ Len(l.parsers) = Len(options.files)
          /\ \A i \in DOMAIN l.parsers : l.parsers[i].file = options.files[i]
          /\ l.before = MergeOf(Len(options.files))
          /\ l.mergedConfig =
                IF l.outcome = "mutated"
                THEN Map(Append(Applied(l.before, l.log).v, CallerKey))
                ELSE Applied(l.before, l.log)
          /\ LET asked == SelectSeq(l.log, IsExamination)
                 leaves == DfsStrings(l.before, <<>>)
             IN /\ Len(asked) <= Len(leaves)
                /\ \A n \in DOMAIN asked :
                      /\ asked[n].path = leaves[n]
                      /\ Str(asked[n].arg) = GetPath(l.before, leaves[n])
                /\ (l.pc = "done" /\ l.provider # NoProvider) => Len(asked) = Len(leaves)

====
